---- MODULE Spec2Model ----
(***************************************************************************)
(* A model of the marc-rs ISO 2709 codec: the leader (record.rs), the      *)
(* encoding bridge (encoding.rs), the binary serializer (writer.rs) and    *)
(* the binary parser (parser.rs).                                          *)
(*                                                                         *)
(* Bytes are integers 0..255, a byte buffer is a sequence of bytes, a Rust *)
(* char is its code point and a String is a sequence of code points.  A    *)
(* Result is a record with a "status" field: "Ok", the name of the error   *)
(* variant, or "panic" for a Rust panic (an index out of range, or an      *)
(* arithmetic overflow in a build with overflow checks).                   *)
(***************************************************************************)
EXTENDS Integers, Sequences, FiniteSets, TLC

\* ---------------------------------------------------------------------
\* Widths and reserved bytes
\* ---------------------------------------------------------------------
U8 == 256
U16 == 65536
LEADER_LEN == 24
DIR_ENTRY_LEN == 12
FIELD_TERMINATOR == 30
SUBFIELD_DELIMITER == 31
RECORD_TERMINATOR == 29
ASCII_ZERO == 48
ASCII_PLUS == 43

Byte == 0..(U8 - 1)

SetMin(S) == CHOOSE x \in S : \A y \in S : x <= y

Range(s) == {s[i] : i \in 1..Len(s)}

\* s[from..to) in Rust's 0-based half-open notation
Slice(s, from, to) == SubSeq(s, from + 1, to)

IsDigit(b) == b >= ASCII_ZERO /\ b <= ASCII_ZERO + 9

\* ---------------------------------------------------------------------
\* UTF-8 (str::as_bytes, std::str::from_utf8, encoding_rs::UTF_8)
\* ---------------------------------------------------------------------
Utf8EncodeChar(c) ==
    IF c < 128 THEN <<c>>
    ELSE IF c < 2048 THEN <<192 + (c \div 64), 128 + (c % 64)>>
    ELSE IF c < 65536 THEN
        <<224 + (c \div 4096), 128 + ((c \div 64) % 64), 128 + (c % 64)>>
    ELSE <<240 + (c \div 262144), 128 + ((c \div 4096) % 64),
           128 + ((c \div 64) % 64), 128 + (c % 64)>>

\* the UTF-8 bytes of a String, by halving (the concatenation of the
\* encodings of its characters, in order)
RECURSIVE str_as_bytes(_)
str_as_bytes(s) ==
    IF Len(s) = 0 THEN <<>>
    ELSE IF Len(s) = 1 THEN Utf8EncodeChar(s[1])
    ELSE LET m == Len(s) \div 2
         IN  str_as_bytes(SubSeq(s, 1, m)) \o str_as_bytes(SubSeq(s, m + 1, Len(s)))

IsCont(b) == b >= 128 /\ b < 192

Utf8Width(b) ==
    IF b < 128 THEN 1
    ELSE IF b >= 194 /\ b <= 223 THEN 2
    ELSE IF b >= 224 /\ b <= 239 THEN 3
    ELSE IF b >= 240 /\ b <= 244 THEN 4
    ELSE 0

Utf8Failure == [ok |-> FALSE, str |-> <<>>]

\* the scalar value of the w bytes that start at b[i] (1-based)
Utf8ScalarValue(b, i, w) ==
    IF w = 1 THEN b[i]
    ELSE IF w = 2 THEN (b[i] - 192) * 64 + (b[i + 1] - 128)
    ELSE IF w = 3 THEN (b[i] - 224) * 4096 + (b[i + 1] - 128) * 64 + (b[i + 2] - 128)
    ELSE (b[i] - 240) * 262144 + (b[i + 1] - 128) * 4096
         + (b[i + 2] - 128) * 64 + (b[i + 3] - 128)

\* a well-formed sequence of w bytes at b[i], inside b[i..hi]: no overlong
\* form, no surrogate, nothing above U+10FFFF
Utf8WellFormed(b, i, hi, w) ==
    /\ w > 0
    /\ i + w - 1 <= hi
    /\ \A k \in (i + 1)..(i + w - 1) : IsCont(b[k])
    /\ (b[i] = 224 => b[i + 1] >= 160)
    /\ (b[i] = 237 => b[i + 1] < 160)
    /\ (b[i] = 240 => b[i + 1] >= 144)
    /\ (b[i] = 244 => b[i + 1] < 144)

Utf8Prepend(cp, rest) ==
    IF rest.ok THEN [ok |-> TRUE, str |-> <<cp>> \o rest.str] ELSE Utf8Failure

Utf8Join(l, r) ==
    IF l.ok /\ r.ok THEN [ok |-> TRUE, str |-> l.str \o r.str] ELSE Utf8Failure

RECURSIVE Utf8DecodeRange(_, _, _)

\* the character at b[lo], of width w, then the rest of b[lo..hi]
Utf8DecodeChar(b, lo, hi, w) ==
    IF Utf8WellFormed(b, lo, hi, w)
    THEN Utf8Prepend(Utf8ScalarValue(b, lo, w), Utf8DecodeRange(b, lo + w, hi))
    ELSE Utf8Failure

\* b[lo..hi] cut at one of cuts, the character boundaries near its middle
Utf8DecodeHalves(b, lo, hi, cuts) ==
    IF cuts = {} THEN Utf8Failure
    ELSE Utf8Join(Utf8DecodeRange(b, lo, SetMin(cuts) - 1),
                  Utf8DecodeRange(b, SetMin(cuts), hi))

\* decode b[lo..hi]; a long range is cut at a character boundary near its
\* middle, a short one is read left to right
Utf8DecodeRange(b, lo, hi) ==
    IF lo > hi THEN [ok |-> TRUE, str |-> <<>>]
    ELSE IF hi - lo < 8 THEN Utf8DecodeChar(b, lo, hi, Utf8Width(b[lo]))
    ELSE Utf8DecodeHalves(b, lo, hi,
            {j \in ((lo + hi) \div 2)..(((lo + hi) \div 2) + 3) : ~IsCont(b[j])})

\* std::str::from_utf8: no byte order mark handling
from_utf8(bytes) == Utf8DecodeRange(bytes, 1, Len(bytes))

\* ---------------------------------------------------------------------
\* UTF-16, reached only through encoding_rs's byte order mark sniffing
\* ---------------------------------------------------------------------
IsHighSurrogate(u) == u >= 55296 /\ u < 56320
IsLowSurrogate(u) == u >= 56320 /\ u < 57344

RECURSIVE Utf16DecodeUnits(_, _)
Utf16DecodeUnits(u, i) ==
    IF i > Len(u) THEN [ok |-> TRUE, str |-> <<>>]
    ELSE IF IsHighSurrogate(u[i]) THEN
        IF i + 1 <= Len(u) /\ IsLowSurrogate(u[i + 1])
        THEN Utf8Prepend(65536 + (u[i] - 55296) * 1024 + (u[i + 1] - 56320),
                         Utf16DecodeUnits(u, i + 2))
        ELSE Utf8Failure
    ELSE IF IsLowSurrogate(u[i]) THEN Utf8Failure
    ELSE Utf8Prepend(u[i], Utf16DecodeUnits(u, i + 1))

Utf16Decode(bytes, little) ==
    IF Len(bytes) % 2 # 0 THEN [ok |-> FALSE, str |-> <<>>]
    ELSE Utf16DecodeUnits(
            [k \in 1..(Len(bytes) \div 2) |->
                IF little THEN bytes[2 * k - 1] + 256 * bytes[2 * k]
                ELSE 256 * bytes[2 * k - 1] + bytes[2 * k]], 1)

\* ---------------------------------------------------------------------
\* windows-1252, which is what the label "iso-8859-1" names in encoding_rs
\* ---------------------------------------------------------------------
W1252High ==
    << 8364, 129, 8218, 402, 8222, 8230, 8224, 8225,
       710, 8240, 352, 8249, 338, 141, 381, 143,
       144, 8216, 8217, 8220, 8221, 8226, 8211, 8212,
       732, 8482, 353, 8250, 339, 157, 382, 376 >>

W1252DecodeByte(b) == IF b >= 128 /\ b < 160 THEN W1252High[b - 127] ELSE b

W1252Encodable(c) ==
    \/ c < 128
    \/ (c >= 160 /\ c < 256)
    \/ \E i \in 1..32 : W1252High[i] = c

W1252EncodeChar(c) ==
    IF c < 128 \/ (c >= 160 /\ c < 256) THEN c
    ELSE 127 + (CHOOSE i \in 1..32 : W1252High[i] = c)

\* ---------------------------------------------------------------------
\* The encoding bridge (encoding.rs)
\* ---------------------------------------------------------------------
\* the encodings of format.rs whose tables are modelled
Encodings == {"Utf8", "Marc8", "Iso5426"}

get_encoding(encoding) == IF encoding = "Utf8" THEN "UTF_8" ELSE "WINDOWS_1252"

\* Encoding::decode_without_bom_handling: [ok |-> ~had_errors, str]
DecodeWithoutBom(enc, data) ==
    IF enc = "UTF_8" THEN from_utf8(data)
    ELSE [ok |-> TRUE, str |-> [i \in 1..Len(data) |-> W1252DecodeByte(data[i])]]

\* Encoding::decode: a leading byte order mark selects the decoder and is
\* removed, whatever encoding the caller named
EncodingDecode(enc, data) ==
    IF Len(data) >= 3 /\ data[1] = 239 /\ data[2] = 187 /\ data[3] = 191
    THEN from_utf8(SubSeq(data, 4, Len(data)))
    ELSE IF Len(data) >= 2 /\ data[1] = 255 /\ data[2] = 254
    THEN Utf16Decode(SubSeq(data, 3, Len(data)), TRUE)
    ELSE IF Len(data) >= 2 /\ data[1] = 254 /\ data[2] = 255
    THEN Utf16Decode(SubSeq(data, 3, Len(data)), FALSE)
    ELSE DecodeWithoutBom(enc, data)

\* Encoding::encode: [ok |-> ~had_errors, bytes]
EncodingEncode(enc, text) ==
    IF enc = "UTF_8" THEN [ok |-> TRUE, bytes |-> str_as_bytes(text)]
    ELSE IF \A i \in 1..Len(text) : W1252Encodable(text[i])
    THEN [ok |-> TRUE, bytes |-> [i \in 1..Len(text) |-> W1252EncodeChar(text[i])]]
    ELSE [ok |-> FALSE, bytes |-> <<>>]

Iso5426KeepsControl(b) == b = 9 \/ b = 10 \/ b = 13

map_iso5426_special(byte) == W1252DecodeByte(byte)

\* a dropped byte is marked -1 and then filtered out
Iso5426DecodeByte(byte) ==
    IF byte >= 32 /\ byte <= 126 THEN byte
    ELSE IF byte < 32 THEN (IF Iso5426KeepsControl(byte) THEN byte ELSE -1)
    ELSE IF byte = 127 THEN -1
    ELSE IF byte < 160 THEN map_iso5426_special(byte)
    ELSE W1252DecodeByte(byte)

IsKept(x) == x # -1

decode_iso5426(data) ==
    [ok |-> TRUE,
     str |-> SelectSeq([i \in 1..Len(data) |-> Iso5426DecodeByte(data[i])], IsKept)]

map_unicode_to_iso5426(ch) ==
    IF W1252Encodable(ch) THEN W1252EncodeChar(ch) ELSE -1

Iso5426EncodeChar(ch) ==
    IF ch >= 32 /\ ch <= 126 THEN ch
    ELSE IF ch < 32 THEN (IF Iso5426KeepsControl(ch) THEN ch ELSE -1)
    ELSE map_unicode_to_iso5426(ch)

encode_iso5426(text) ==
    IF \E i \in 1..Len(text) : text[i] > 126 /\ ~W1252Encodable(text[i])
    THEN [ok |-> FALSE, bytes |-> <<>>]
    ELSE [ok |-> TRUE,
          bytes |-> SelectSeq([i \in 1..Len(text) |-> Iso5426EncodeChar(text[i])], IsKept)]

convert_to_utf8(data, encoding) ==
    IF encoding = "Iso5426" THEN decode_iso5426(data)
    ELSE EncodingDecode(get_encoding(encoding), data)

convert_from_encoding(text, encoding) ==
    IF encoding = "Iso5426" THEN encode_iso5426(text)
    ELSE EncodingEncode(get_encoding(encoding), text)

\* ---------------------------------------------------------------------
\* Decimal text (format!("{:0w}", n) and str::parse for unsigned integers)
\* ---------------------------------------------------------------------
RECURSIVE DecimalDigits(_)
DecimalDigits(n) ==
    IF n < 10 THEN <<ASCII_ZERO + n>>
    ELSE Append(DecimalDigits(n \div 10), ASCII_ZERO + (n % 10))

ZeroPad(d, width) ==
    [i \in 1..(IF width > Len(d) THEN width - Len(d) ELSE 0) |-> ASCII_ZERO] \o d

\* format!("{:0width}", n): at least width characters, never truncated
FormatZeroPadded(n, width) == ZeroPad(DecimalDigits(n), width)

RECURSIVE DigitsValue(_)
DigitsValue(d) ==
    IF Len(d) = 0 THEN 0
    ELSE 10 * DigitsValue(SubSeq(d, 1, Len(d) - 1)) + (d[Len(d)] - ASCII_ZERO)

NotANumber == [ok |-> FALSE, val |-> 0]

\* the digits of a number text: one leading '+' is accepted and dropped
StripPlus(bytes) ==
    IF Len(bytes) > 0 /\ bytes[1] = ASCII_PLUS THEN SubSeq(bytes, 2, Len(bytes))
    ELSE bytes

ParseDigits(body) ==
    IF Len(body) > 0 /\ (\A i \in 1..Len(body) : IsDigit(body[i]))
    THEN [ok |-> TRUE, val |-> DigitsValue(body)]
    ELSE NotANumber

\* from_utf8, then <unsigned>::from_str before its range check: one
\* optional '+', then at least one digit and only digits
ParseUnsigned(bytes) ==
    IF from_utf8(bytes).ok THEN ParseDigits(StripPlus(bytes)) ELSE NotANumber

\* the element of a set of one element: its bound names hold values that
\* were computed once
The(set) == CHOOSE x \in set : TRUE

CheckU16(n) == IF n.ok /\ n.val < U16 THEN n ELSE NotANumber

\* from_utf8 and parse::<u16>: a value above u16::MAX is an error
parse_u16(bytes) == The({CheckU16(n) : n \in {ParseUnsigned(bytes)}})

\* from_utf8 and parse::<usize> of the 4 or 5 bytes of a directory entry,
\* which cannot pass usize::MAX
parse_usize(bytes) == ParseUnsigned(bytes)

\* ---------------------------------------------------------------------
\* Leader (record.rs)
\* ---------------------------------------------------------------------
NoLeader ==
    [record_length |-> 0, record_status |-> 0, record_type |-> 0,
     bibliographic_level |-> 0, type_of_control |-> 0,
     character_coding_scheme |-> 0, indicator_count |-> 0,
     subfield_code_count |-> 0, base_address_of_data |-> 0,
     encoding_level |-> 0, descriptive_cataloging_form |-> 0,
     multipart_resource_record_level |-> 0,
     length_of_length_of_field_portion |-> 0,
     length_of_starting_character_position_portion |-> 0,
     length_of_implementation_defined_portion |-> 0, undefined |-> 0]

\* the five u8 counts, with their leader positions (0-based)
CountPositions == {10, 11, 20, 21, 22}

\* data[p] - b'0' in u8: a panic under overflow checks, a wrap without
DigitOf(b) == (b - ASCII_ZERO) % U8

LeaderFailure(status) == [status |-> status, leader |-> NoLeader]

\* the Ok(Leader { .. }) expression of from_bytes
BuildLeader(data, overflow_checks, record_length, base_address) ==
    IF ~record_length.ok \/ ~base_address.ok THEN LeaderFailure("Err")
    ELSE IF overflow_checks /\ \E p \in CountPositions : data[p + 1] < ASCII_ZERO
    THEN LeaderFailure("panic")
    ELSE [status |-> "Ok",
          leader |->
            [record_length |-> record_length.val,
             record_status |-> data[6],
             record_type |-> data[7],
             bibliographic_level |-> data[8],
             type_of_control |-> data[9],
             character_coding_scheme |-> data[10],
             indicator_count |-> DigitOf(data[11]),
             subfield_code_count |-> DigitOf(data[12]),
             base_address_of_data |-> base_address.val,
             encoding_level |-> data[18],
             descriptive_cataloging_form |-> data[19],
             multipart_resource_record_level |-> data[20],
             length_of_length_of_field_portion |-> DigitOf(data[21]),
             length_of_starting_character_position_portion |-> DigitOf(data[22]),
             length_of_implementation_defined_portion |-> DigitOf(data[23]),
             undefined |-> data[24]]]

from_bytes(data, overflow_checks) ==
    IF Len(data) # LEADER_LEN THEN LeaderFailure("Err")
    ELSE The({BuildLeader(data, overflow_checks, record_length, base_address) :
                record_length \in {parse_u16(Slice(data, 0, 5))},
                base_address \in {parse_u16(Slice(data, 12, 17))}})

\* b'0' + count in u8: a panic under overflow checks when it passes 255
CountOverflows(l) ==
    \/ ASCII_ZERO + l.indicator_count >= U8
    \/ ASCII_ZERO + l.subfield_code_count >= U8
    \/ ASCII_ZERO + l.length_of_length_of_field_portion >= U8
    \/ ASCII_ZERO + l.length_of_starting_character_position_portion >= U8
    \/ ASCII_ZERO + l.length_of_implementation_defined_portion >= U8

to_bytes(l, overflow_checks) ==
    IF overflow_checks /\ CountOverflows(l) THEN [status |-> "panic", bytes |-> <<>>]
    ELSE [status |-> "Ok",
          bytes |->
            FormatZeroPadded(l.record_length, 5)
            \o << l.record_status % U8, l.record_type % U8,
                  l.bibliographic_level % U8, l.type_of_control % U8,
                  l.character_coding_scheme % U8,
                  (ASCII_ZERO + l.indicator_count) % U8,
                  (ASCII_ZERO + l.subfield_code_count) % U8 >>
            \o FormatZeroPadded(l.base_address_of_data, 5)
            \o << l.encoding_level % U8, l.descriptive_cataloging_form % U8,
                  l.multipart_resource_record_level % U8,
                  (ASCII_ZERO + l.length_of_length_of_field_portion) % U8,
                  (ASCII_ZERO + l.length_of_starting_character_position_portion) % U8,
                  (ASCII_ZERO + l.length_of_implementation_defined_portion) % U8,
                  l.undefined % U8 >>]

\* ---------------------------------------------------------------------
\* The ISO 2709 serializer (writer.rs)
\* ---------------------------------------------------------------------
NoFields == [ok |-> FALSE, data_area |-> <<>>, directory_entries |-> <<>>]

RECURSIVE WriteControlFields(_, _, _, _)

\* a faulty control-field step that puts the newest directory triple first;
\* order preservation (C5) does not hold of it
PrependControlField(fields, encoding, data_area, directory_entries, value_bytes) ==
    IF ~value_bytes.ok THEN NoFields
    ELSE WriteControlFields(Tail(fields), encoding,
            data_area \o value_bytes.bytes \o <<FIELD_TERMINATOR>>,
            <<[tag |-> Head(fields).tag, start |-> Len(data_area),
               length |-> Len(value_bytes.bytes) + 1]>> \o directory_entries)

\* the body of the first loop, once the value is converted
AppendControlField(fields, encoding, data_area, directory_entries, value_bytes) ==
    IF ~value_bytes.ok THEN NoFields
    ELSE WriteControlFields(Tail(fields), encoding,
            data_area \o value_bytes.bytes \o <<FIELD_TERMINATOR>>,
            Append(directory_entries,
                   [tag |-> Head(fields).tag, start |-> Len(data_area),
                    length |-> Len(value_bytes.bytes) + 1]))

\* the first loop of write_single_marc21_binary: one image and one
\* directory triple per control field, in order
WriteControlFields(fields, encoding, data_area, directory_entries) ==
    IF fields = <<>>
    THEN [ok |-> TRUE, data_area |-> data_area, directory_entries |-> directory_entries]
    ELSE AppendControlField(fields, encoding, data_area, directory_entries,
            convert_from_encoding(Head(fields).value, encoding))

RECURSIVE WriteSubfields(_, _, _)

AppendSubfield(subfields, encoding, field_data, value_bytes) ==
    IF ~value_bytes.ok THEN [ok |-> FALSE, field_data |-> <<>>]
    ELSE WriteSubfields(Tail(subfields), encoding,
            field_data \o <<SUBFIELD_DELIMITER, Head(subfields).code % U8>>
            \o value_bytes.bytes)

\* the inner loop over the subfields of one data field
WriteSubfields(subfields, encoding, field_data) ==
    IF subfields = <<>> THEN [ok |-> TRUE, field_data |-> field_data]
    ELSE AppendSubfield(subfields, encoding, field_data,
            convert_from_encoding(Head(subfields).value, encoding))

RECURSIVE WriteDataFields(_, _, _, _)

\* the end of the second loop's body: the terminator, the data area, the
\* directory triple
AppendDataField(fields, encoding, data_area, directory_entries, body) ==
    IF ~body.ok THEN NoFields
    ELSE WriteDataFields(Tail(fields), encoding,
            data_area \o body.field_data \o <<FIELD_TERMINATOR>>,
            Append(directory_entries,
                   [tag |-> Head(fields).tag, start |-> Len(data_area),
                    length |-> Len(body.field_data) + 1]))

\* the second loop: the data fields, after the control fields
WriteDataFields(fields, encoding, data_area, directory_entries) ==
    IF fields = <<>>
    THEN [ok |-> TRUE, data_area |-> data_area, directory_entries |-> directory_entries]
    ELSE AppendDataField(fields, encoding, data_area, directory_entries,
            WriteSubfields(Head(fields).subfields, encoding,
                           <<Head(fields).ind1 % U8, Head(fields).ind2 % U8>>))

\* one directory entry: the tag's bytes, then "{:04}{:05}" of length, start
DirectoryEntryBytes(entry) ==
    str_as_bytes(entry.tag) \o FormatZeroPadded(entry.length, 4)
    \o FormatZeroPadded(entry.start, 5)

\* the directory loop, for tags that passed its length test
RECURSIVE BuildDirectory(_)
BuildDirectory(directory_entries) ==
    IF directory_entries = <<>> THEN <<>>
    ELSE DirectoryEntryBytes(Head(directory_entries))
         \o BuildDirectory(Tail(directory_entries))

WriteFailure(status) ==
    [status |-> status, image |-> <<>>, directory_entries |-> <<>>,
     directory |-> <<>>, data_area |-> <<>>]

\* the three write_all calls
EmitRecord(leader_bytes, directory_entries, directory, data_area) ==
    IF leader_bytes.status = "panic" THEN WriteFailure("panic")
    ELSE [status |-> "Ok",
          image |-> leader_bytes.bytes \o directory \o data_area,
          directory_entries |-> directory_entries,
          directory |-> directory,
          data_area |-> data_area]

\* "Calculate base address" and "Update leader": both numbers are cast to u16
UpdateLeader(leader, directory, data_area) ==
    [leader EXCEPT
        !.base_address_of_data = (LEADER_LEN + Len(directory)) % U16,
        !.record_length = (LEADER_LEN + Len(directory) + Len(data_area)) % U16]

FrameRecord(record, overflow_checks, directory_entries, directory, data_area) ==
    EmitRecord(to_bytes(UpdateLeader(record.leader, directory, data_area),
                        overflow_checks),
               directory_entries, directory, data_area)

\* "Build directory": a tag whose UTF-8 form is not 3 bytes is refused
WriteDirectory(record, overflow_checks, fields) ==
    IF ~fields.ok THEN WriteFailure("InvalidEncoding")
    ELSE IF \E k \in 1..Len(fields.directory_entries) :
                Len(str_as_bytes(fields.directory_entries[k].tag)) # 3
    THEN WriteFailure("InvalidRecord")
    ELSE FrameRecord(record, overflow_checks, fields.directory_entries,
                     BuildDirectory(fields.directory_entries),
                     fields.data_area \o <<RECORD_TERMINATOR>>)

WriteFields(record, encoding, control) ==
    IF ~control.ok THEN NoFields
    ELSE WriteDataFields(record.data_fields, encoding,
                         control.data_area, control.directory_entries)

\* write_single_marc21_binary: the bytes it writes to output (image), with
\* the directory triples, the directory and the data area it built
write_single_marc21_binary(record, encoding, overflow_checks) ==
    WriteDirectory(record, overflow_checks,
        WriteFields(record, encoding,
            WriteControlFields(record.control_fields, encoding, <<>>, <<>>)))

RECURSIVE write_marc21_binary(_, _, _, _, _)

\* the ? of the loop of write_marc21_binary
WriteNext(records, encoding, overflow_checks, output, images, w) ==
    IF w.status # "Ok" THEN [status |-> w.status, output |-> output, images |-> images]
    ELSE write_marc21_binary(Tail(records), encoding, overflow_checks,
                             output \o w.image, Append(images, w))

\* write_marc21_binary: the records in order, stopping at the first failure;
\* output keeps what the earlier records wrote, images their results
write_marc21_binary(records, encoding, overflow_checks, output, images) ==
    IF records = <<>> THEN [status |-> "Ok", output |-> output, images |-> images]
    ELSE WriteNext(records, encoding, overflow_checks, output, images,
            write_single_marc21_binary(Head(records), encoding, overflow_checks))

\* ---------------------------------------------------------------------
\* The ISO 2709 parser (parser.rs)
\* ---------------------------------------------------------------------
\* a < b for byte strings (the order of str)
RECURSIVE BytesLess(_, _)
BytesLess(a, b) ==
    IF b = <<>> THEN FALSE
    ELSE IF a = <<>> THEN TRUE
    ELSE IF Head(a) # Head(b) THEN Head(a) < Head(b)
    ELSE BytesLess(Tail(a), Tail(b))

TAG_010 == <<48, 49, 48>>

\* the first index >= i of subfield_data that holds one of stops, or
\* Len + 1 (1-based)
NextStop(subfield_data, i, stops) ==
    SetMin({k \in i..Len(subfield_data) : subfield_data[k] \in stops}
           \cup {Len(subfield_data) + 1})

RECURSIVE ParseSubfields(_, _, _, _)

\* subfields.push(Subfield { code, value }), with i left at value_end
PushSubfield(subfield_data, encoding, subfields, code, value_end, value) ==
    IF ~value.ok THEN [ok |-> FALSE, subfields |-> <<>>]
    ELSE ParseSubfields(subfield_data, value_end, encoding,
            Append(subfields, [code |-> code, value |-> value.str]))

\* the delimiter is at i: the code follows, the value runs to value_end
ParseSubfieldAt(subfield_data, i, encoding, subfields, value_end) ==
    PushSubfield(subfield_data, encoding, subfields, subfield_data[i + 1], value_end,
        convert_to_utf8(SubSeq(subfield_data, i + 2, value_end - 1), encoding))

\* the subfield loop, from the 1-based index i; bytes that are not a
\* delimiter are stepped over one by one in the code, here in one jump
ParseSubfields(subfield_data, i, encoding, subfields) ==
    IF i > Len(subfield_data) THEN [ok |-> TRUE, subfields |-> subfields]
    ELSE IF subfield_data[i] = SUBFIELD_DELIMITER THEN
        IF i + 1 > Len(subfield_data) THEN [ok |-> TRUE, subfields |-> subfields]
        ELSE ParseSubfieldAt(subfield_data, i, encoding, subfields,
                NextStop(subfield_data, i + 2, {SUBFIELD_DELIMITER, FIELD_TERMINATOR}))
    ELSE ParseSubfields(subfield_data,
                        NextStop(subfield_data, i, {SUBFIELD_DELIMITER}),
                        encoding, subfields)

NoRecord == [leader |-> NoLeader, control_fields |-> <<>>, data_fields |-> <<>>]

ParseFailure(status) == [status |-> status, record |-> NoRecord]

RECURSIVE ParseDirectory(_, _, _, _, _, _, _)

\* control_fields.push(ControlField { tag, value })
PushControlField(directory, data_area, dir_offset, leader, encoding, control_fields, data_fields, tag, value) ==
    IF ~value.ok THEN ParseFailure("InvalidEncoding")
    ELSE ParseDirectory(directory, data_area, dir_offset + DIR_ENTRY_LEN,
            leader, encoding,
            Append(control_fields, [tag |-> tag, value |-> value.str]), data_fields)

\* data_fields.push(DataField { tag, ind1, ind2, subfields })
PushDataField(directory, data_area, dir_offset, leader, encoding, control_fields, data_fields, tag, field_data, subfields) ==
    IF ~subfields.ok THEN ParseFailure("InvalidEncoding")
    ELSE ParseDirectory(directory, data_area, dir_offset + DIR_ENTRY_LEN,
            leader, encoding, control_fields,
            Append(data_fields,
                   [tag |-> tag, ind1 |-> field_data[1], ind2 |-> field_data[2],
                    subfields |-> subfields.subfields]))

\* the branch on tag < "010", with the field image in hand
ParseField(directory, data_area, dir_offset, leader, encoding, control_fields, data_fields, tag_bytes, field_data) ==
    IF BytesLess(tag_bytes, TAG_010) THEN
        PushControlField(directory, data_area, dir_offset, leader, encoding,
            control_fields, data_fields, from_utf8(tag_bytes).str,
            convert_to_utf8(field_data, encoding))
    ELSE IF field_data = <<>> THEN
        ParseDirectory(directory, data_area, dir_offset + DIR_ENTRY_LEN,
                       leader, encoding, control_fields, data_fields)
    ELSE IF Len(field_data) < 2 THEN ParseFailure("panic")
    ELSE PushDataField(directory, data_area, dir_offset, leader, encoding,
            control_fields, data_fields, from_utf8(tag_bytes).str, field_data,
            ParseSubfields(SubSeq(field_data, 3, Len(field_data)), 1, encoding, <<>>))

\* one directory entry, with its three parts read
ParseEntry(directory, data_area, dir_offset, leader, encoding, control_fields, data_fields, tag_bytes, length, start) ==
    IF ~from_utf8(tag_bytes).ok \/ ~length.ok \/ ~start.ok
    THEN ParseFailure("InvalidField")
    ELSE IF start.val + length.val > Len(data_area) THEN ParseFailure("InvalidField")
    ELSE ParseField(directory, data_area, dir_offset, leader, encoding,
            control_fields, data_fields, tag_bytes,
            Slice(data_area, start.val, start.val + length.val))

\* the directory loop of parse_single_marc21_record, from dir_offset
ParseDirectory(directory, data_area, dir_offset, leader, encoding, control_fields, data_fields) ==
    IF dir_offset + DIR_ENTRY_LEN > Len(directory)
    THEN [status |-> "Ok",
          record |-> [leader |-> leader, control_fields |-> control_fields,
                      data_fields |-> data_fields]]
    ELSE ParseEntry(directory, data_area, dir_offset, leader, encoding,
            control_fields, data_fields,
            Slice(directory, dir_offset, dir_offset + 3),
            parse_usize(Slice(directory, dir_offset + 3, dir_offset + 7)),
            parse_usize(Slice(directory, dir_offset + 7, dir_offset + 12)))

\* data[24..base_address] panics when base_address is below 24
parse_single_marc21_record(data, leader, encoding) ==
    IF Len(data) < leader.base_address_of_data THEN ParseFailure("UnexpectedEof")
    ELSE IF leader.base_address_of_data < LEADER_LEN THEN ParseFailure("panic")
    ELSE ParseDirectory(Slice(data, LEADER_LEN, leader.base_address_of_data),
                        Slice(data, leader.base_address_of_data, Len(data)),
                        0, leader, encoding, <<>>, <<>>)

RECURSIVE parse_marc21_binary(_, _, _, _, _)

\* records.push(record); offset += record_length
PushRecord(data, encoding, overflow_checks, offset, records, record_length, record) ==
    IF record.status # "Ok" THEN [status |-> record.status, records |-> <<>>]
    ELSE parse_marc21_binary(data, encoding, overflow_checks,
                             offset + record_length, Append(records, record.record))

\* the loop body after Leader::from_bytes
ParseRecordAt(data, encoding, overflow_checks, offset, records, l) ==
    IF l.status = "panic" THEN [status |-> "panic", records |-> <<>>]
    ELSE IF l.status # "Ok" THEN [status |-> "InvalidLeader", records |-> <<>>]
    ELSE IF l.leader.record_length = 0 \/ l.leader.record_length > Len(data) - offset
    THEN [status |-> "InvalidRecordLength", records |-> <<>>]
    ELSE PushRecord(data, encoding, overflow_checks, offset, records,
            l.leader.record_length,
            parse_single_marc21_record(
                Slice(data, offset, offset + l.leader.record_length),
                l.leader, encoding))

\* a faulty loop head that reports a short tail instead of stopping;
\* end-of-stream tolerance (C10) does not hold of it
parse_marc21_binary_strict_tail(data, encoding, overflow_checks, offset, records) ==
    IF ~(offset < Len(data)) THEN [status |-> "Ok", records |-> records]
    ELSE IF Len(data) - offset < LEADER_LEN
    THEN [status |-> "UnexpectedEof", records |-> <<>>]
    ELSE ParseRecordAt(data, encoding, overflow_checks, offset, records,
            from_bytes(Slice(data, offset, offset + LEADER_LEN), overflow_checks))

\* parse_marc21_binary from offset, with the records decoded so far; an
\* Err carries no records
parse_marc21_binary(data, encoding, overflow_checks, offset, records) ==
    IF ~(offset < Len(data)) THEN [status |-> "Ok", records |-> records]
    ELSE IF Len(data) - offset < LEADER_LEN THEN [status |-> "Ok", records |-> records]
    ELSE ParseRecordAt(data, encoding, overflow_checks, offset, records,
            from_bytes(Slice(data, offset, offset + LEADER_LEN), overflow_checks))

\* ---------------------------------------------------------------------
\* The loops of the ISO 2709 parser, one iteration at a time.  l holds the
\* locals of parse_marc21_binary and parse_single_marc21_record: the loop
\* that runs (at), offset, records, the leader of the record at offset,
\* dir_offset, control_fields, data_fields, the tag and image of the data
\* field being read, i, subfields, and the result once returned.  Offsets
\* are 0-based as in the code.
\* ---------------------------------------------------------------------
NoLoop ==
    [at |-> "none", offset |-> 0, records |-> <<>>, leader |-> NoLeader,
     dir_offset |-> 0, control_fields |-> <<>>, data_fields |-> <<>>,
     tag |-> <<>>, field_data |-> <<>>, i |-> 0, subfields |-> <<>>,
     result |-> "none"]

\* return Ok(records), return Err(..), or a panic
LoopReturn(l, status) ==
    [l EXCEPT !.at = "returned", !.result = status,
              !.records = IF status = "Ok" THEN @ ELSE <<>>]

\* &data[24..base_address] and &data[base_address..] of the record at offset
LoopDirectory(l, data) ==
    Slice(data, l.offset + LEADER_LEN, l.offset + l.leader.base_address_of_data)
LoopDataArea(l, data) ==
    Slice(data, l.offset + l.leader.base_address_of_data,
          l.offset + l.leader.record_length)

\* the body of the record loop from Leader::from_bytes to the head of the
\* directory loop
EnterRecord(l, data, lead) ==
    IF lead.status = "panic" THEN LoopReturn(l, "panic")
    ELSE IF lead.status # "Ok" THEN LoopReturn(l, "InvalidLeader")
    ELSE IF lead.leader.record_length = 0
            \/ lead.leader.record_length > Len(data) - l.offset
    THEN LoopReturn(l, "InvalidRecordLength")
    ELSE IF lead.leader.record_length < lead.leader.base_address_of_data
    THEN LoopReturn(l, "UnexpectedEof")
    ELSE IF lead.leader.base_address_of_data < LEADER_LEN THEN LoopReturn(l, "panic")
    ELSE [l EXCEPT !.at = "directory_loop", !.leader = lead.leader,
                   !.dir_offset = 0, !.control_fields = <<>>, !.data_fields = <<>>]

\* the head of the record loop: while offset < data.len(), break on a tail
\* shorter than a leader
RecordLoopStep(l, data, overflow_checks) ==
    IF ~(l.offset < Len(data)) THEN LoopReturn(l, "Ok")
    ELSE IF Len(data) - l.offset < LEADER_LEN THEN LoopReturn(l, "Ok")
    ELSE The({EnterRecord(l, data, lead) :
                lead \in {from_bytes(Slice(data, l.offset, l.offset + LEADER_LEN),
                                     overflow_checks)}})

\* Ok(Record { .. }); records.push(record); offset += record_length
FinishRecord(l) ==
    [l EXCEPT !.at = "record_loop",
              !.records = Append(@, [leader |-> l.leader,
                                     control_fields |-> l.control_fields,
                                     data_fields |-> l.data_fields]),
              !.offset = @ + l.leader.record_length]

\* dir_offset += 12, at the end of the loop body and before continue
NextEntry(l) ==
    [l EXCEPT !.at = "directory_loop", !.dir_offset = @ + DIR_ENTRY_LEN]

\* the branch on tag < "010", with the field image in hand
EnterField(l, encoding, tag_bytes, field_data) ==
    IF BytesLess(tag_bytes, TAG_010) THEN
        IF ~convert_to_utf8(field_data, encoding).ok
        THEN LoopReturn(l, "InvalidEncoding")
        ELSE NextEntry([l EXCEPT !.control_fields =
                Append(@, [tag |-> from_utf8(tag_bytes).str,
                           value |-> convert_to_utf8(field_data, encoding).str])])
    ELSE IF field_data = <<>> THEN NextEntry(l)
    ELSE IF Len(field_data) < 2 THEN LoopReturn(l, "panic")
    ELSE [l EXCEPT !.at = "subfield_loop", !.tag = from_utf8(tag_bytes).str,
                   !.field_data = field_data, !.i = 0, !.subfields = <<>>]

\* one directory entry, with its three parts read
EnterEntry(l, encoding, data_area, tag_bytes, length, start) ==
    IF ~from_utf8(tag_bytes).ok \/ ~length.ok \/ ~start.ok
    THEN LoopReturn(l, "InvalidField")
    ELSE IF start.val + length.val > Len(data_area) THEN LoopReturn(l, "InvalidField")
    ELSE The({EnterField(l, encoding, tag_bytes, field_data) :
                field_data \in {Slice(data_area, start.val, start.val + length.val)}})

\* the head of the directory loop: while dir_offset + 12 <= directory.len()
DirectoryLoopAt(l, encoding, directory, data_area) ==
    IF l.dir_offset + DIR_ENTRY_LEN > Len(directory) THEN FinishRecord(l)
    ELSE The({EnterEntry(l, encoding, data_area,
                         Slice(directory, l.dir_offset, l.dir_offset + 3), length, start) :
                length \in {parse_usize(Slice(directory, l.dir_offset + 3, l.dir_offset + 7))},
                start \in {parse_usize(Slice(directory, l.dir_offset + 7, l.dir_offset + 12))}})
DirectoryLoopStep(l, data, encoding) ==
    DirectoryLoopAt(l, encoding, LoopDirectory(l, data), LoopDataArea(l, data))

\* data_fields.push(DataField { tag, ind1, ind2, subfields })
FinishField(l) ==
    NextEntry([l EXCEPT !.data_fields =
        Append(@, [tag |-> l.tag, ind1 |-> l.field_data[1], ind2 |-> l.field_data[2],
                   subfields |-> l.subfields])])

\* the delimiter is at i: the code follows, the inner loop leaves i at
\* value_end
ReadSubfield(l, encoding, subfield_data, value_end) ==
    IF ~convert_to_utf8(Slice(subfield_data, l.i + 2, value_end), encoding).ok
    THEN LoopReturn(l, "InvalidEncoding")
    ELSE [l EXCEPT !.subfields =
            Append(@, [code |-> subfield_data[l.i + 2],
                       value |-> convert_to_utf8(
                           Slice(subfield_data, l.i + 2, value_end), encoding).str]),
                   !.i = value_end]

\* a subfield loop without the i += 1 of its else branch: at a byte that
\* is not a delimiter it runs for ever (C30)
SubfieldLoopAtStuck(l, encoding, subfield_data) ==
    IF ~(l.i < Len(subfield_data)) THEN FinishField(l)
    ELSE IF subfield_data[l.i + 1] = SUBFIELD_DELIMITER THEN
        IF l.i + 1 >= Len(subfield_data) THEN FinishField(l)
        ELSE ReadSubfield(l, encoding, subfield_data,
                NextStop(subfield_data, l.i + 3,
                         {SUBFIELD_DELIMITER, FIELD_TERMINATOR}) - 1)
    ELSE l

\* one iteration of the subfield loop: while i < subfield_data.len()
SubfieldLoopAt(l, encoding, subfield_data) ==
    IF ~(l.i < Len(subfield_data)) THEN FinishField(l)
    ELSE IF subfield_data[l.i + 1] = SUBFIELD_DELIMITER THEN
        IF l.i + 1 >= Len(subfield_data) THEN FinishField(l)
        ELSE ReadSubfield(l, encoding, subfield_data,
                NextStop(subfield_data, l.i + 3,
                         {SUBFIELD_DELIMITER, FIELD_TERMINATOR}) - 1)
    ELSE [l EXCEPT !.i = @ + 1]
SubfieldLoopStep(l, encoding) ==
    SubfieldLoopAt(l, encoding, Slice(l.field_data, 2, Len(l.field_data)))

\* ---------------------------------------------------------------------
\* The MARCXML serializer (writer.rs, write_marc_xml); text is a sequence
\* of code points, markup is written as quick_xml's Writer writes it
\* ---------------------------------------------------------------------
\* <?xml version="1.0" encoding="UTF-8"?>
XML_DECL == <<60, 63, 120, 109, 108, 32, 118, 101, 114, 115, 105, 111, 110, 61, 34, 49, 46, 48, 34, 32, 101, 110, 99, 111, 100, 105, 110, 103, 61, 34, 85, 84, 70, 45, 56, 34, 63, 62>>
\* xmlns="http://www.loc.gov/MARC21/slim", as push_attribute appends it
XMLNS_ATTR == <<32, 120, 109, 108, 110, 115, 61, 34, 104, 116, 116, 112, 58, 47, 47, 119, 119, 119, 46, 108, 111, 99, 46, 103, 111, 118, 47, 77, 65, 82, 67, 50, 49, 47, 115, 108, 105, 109, 34>>
\* the element and attribute names of the slim schema
XmlName ==
    [collection |-> <<99, 111, 108, 108, 101, 99, 116, 105, 111, 110>>,
     record |-> <<114, 101, 99, 111, 114, 100>>,
     leader |-> <<108, 101, 97, 100, 101, 114>>,
     controlfield |-> <<99, 111, 110, 116, 114, 111, 108, 102, 105, 101, 108, 100>>,
     datafield |-> <<100, 97, 116, 97, 102, 105, 101, 108, 100>>,
     subfield |-> <<115, 117, 98, 102, 105, 101, 108, 100>>,
     tag |-> <<116, 97, 103>>,
     ind1 |-> <<105, 110, 100, 49>>,
     ind2 |-> <<105, 110, 100, 50>>,
     code |-> <<99, 111, 100, 101>>]

\* quick_xml escape of one character of an attribute value: < > & ' "
EscapeChar(c) ==
    IF c = 60 THEN <<38, 108, 116, 59>>
    ELSE IF c = 62 THEN <<38, 103, 116, 59>>
    ELSE IF c = 38 THEN <<38, 97, 109, 112, 59>>
    ELSE IF c = 39 THEN <<38, 97, 112, 111, 115, 59>>
    ELSE IF c = 34 THEN <<38, 113, 117, 111, 116, 59>>
    ELSE <<c>>

RECURSIVE escape(_)
escape(raw) ==
    IF raw = <<>> THEN <<>> ELSE EscapeChar(Head(raw)) \o escape(Tail(raw))

\* push_attribute((key, value)): a space, the key, =", the escaped value, "
push_attribute(key, value) == <<32>> \o key \o <<61, 34>> \o escape(value) \o <<34>>

\* Event::Start, Event::End as written; BytesText::from_escaped(text) is
\* written as it is, without escaping
StartTag(name, attributes) == <<60>> \o name \o attributes \o <<62>>
EndTag(name) == <<60, 47>> \o name \o <<62>>
Element(name, attributes, escaped_text) ==
    StartTag(name, attributes) \o escaped_text \o EndTag(name)

RECURSIVE XmlControlFields(_)
XmlControlFields(fields) ==
    IF fields = <<>> THEN <<>>
    ELSE Element(XmlName.controlfield, push_attribute(XmlName.tag, Head(fields).tag),
                 Head(fields).value)
         \o XmlControlFields(Tail(fields))

RECURSIVE XmlSubfields(_)
XmlSubfields(subfields) ==
    IF subfields = <<>> THEN <<>>
    ELSE Element(XmlName.subfield, push_attribute(XmlName.code, <<Head(subfields).code>>),
                 Head(subfields).value)
         \o XmlSubfields(Tail(subfields))

RECURSIVE XmlDataFields(_)
XmlDataFields(fields) ==
    IF fields = <<>> THEN <<>>
    ELSE Element(XmlName.datafield,
                 push_attribute(XmlName.tag, Head(fields).tag)
                 \o push_attribute(XmlName.ind1, <<Head(fields).ind1>>)
                 \o push_attribute(XmlName.ind2, <<Head(fields).ind2>>),
                 XmlSubfields(Head(fields).subfields))
         \o XmlDataFields(Tail(fields))

RECURSIVE XmlWriteRecords(_, _, _)

\* one record, once its leader is converted: the start tag is already
\* written when to_bytes or from_utf8 fails
XmlWriteRecord(records, overflow_checks, output, leader_bytes, leader_str) ==
    IF leader_bytes.status = "panic"
    THEN [status |-> "panic", output |-> output \o StartTag(XmlName.record, XMLNS_ATTR)]
    ELSE IF ~leader_str.ok
    THEN [status |-> "Other", output |-> output \o StartTag(XmlName.record, XMLNS_ATTR)]
    ELSE XmlWriteRecords(Tail(records), overflow_checks,
            output \o StartTag(XmlName.record, XMLNS_ATTR)
            \o Element(XmlName.leader, <<>>, leader_str.str)
            \o XmlControlFields(Head(records).control_fields)
            \o XmlDataFields(Head(records).data_fields)
            \o EndTag(XmlName.record))

\* the loop over the records
XmlWriteRecords(records, overflow_checks, output) ==
    IF records = <<>> THEN [status |-> "Ok", output |-> output]
    ELSE XmlWriteRecord(records, overflow_checks, output,
            to_bytes(Head(records).leader, overflow_checks),
            from_utf8(to_bytes(Head(records).leader, overflow_checks).bytes))

\* the closing of the collection wrapper, reached only without an error
XmlCloseCollection(many, body) ==
    IF body.status = "Ok" /\ many
    THEN [status |-> "Ok", output |-> body.output \o EndTag(XmlName.collection)]
    ELSE body

\* write_marc_xml: status and the text written to output
write_marc_xml(records, overflow_checks) ==
    XmlCloseCollection(Len(records) > 1,
        XmlWriteRecords(records, overflow_checks,
            XML_DECL \o (IF Len(records) > 1
                         THEN StartTag(XmlName.collection, XMLNS_ATTR) ELSE <<>>)))

\* ---------------------------------------------------------------------
\* The XML reader parse_marc_xml drives (quick_xml Reader with
\* trim_text(true) and its default end-name check)
\* ---------------------------------------------------------------------
IsXmlSpace(c) == c \in {32, 9, 10, 13}

\* first position from i that holds no white space, Len(doc) + 1 if none
RECURSIVE SkipSpace(_, _)
SkipSpace(doc, i) ==
    IF i > Len(doc) THEN Len(doc) + 1
    ELSE IF IsXmlSpace(doc[i]) THEN SkipSpace(doc, i + 1)
    ELSE i

\* the text without its trailing white space
RECURSIVE TrimEnd(_)
TrimEnd(s) ==
    IF s # <<>> /\ IsXmlSpace(s[Len(s)]) THEN TrimEnd(SubSeq(s, 1, Len(s) - 1))
    ELSE s

\* the least position of a set of positions, 0 if it is empty
FirstOf(positions) ==
    IF positions = {} THEN 0
    ELSE CHOOSE j \in positions : \A k \in positions : j <= k

\* first position from i where pat starts, 0 if none
FindSeq(doc, i, pat) ==
    FirstOf({j \in i..(Len(doc) - Len(pat) + 1) : SubSeq(doc, j, j + Len(pat) - 1) = pat})

\* position of the > that closes a start tag: a > inside a quoted
\* attribute value does not close it; 0 if none
RECURSIVE FindTagEnd(_, _, _)
FindTagEnd(doc, i, quote) ==
    IF i > Len(doc) THEN 0
    ELSE IF quote # 0
    THEN FindTagEnd(doc, i + 1, IF doc[i] = quote THEN 0 ELSE quote)
    ELSE IF doc[i] = 62 THEN i
    ELSE FindTagEnd(doc, i + 1, IF doc[i] \in {34, 39} THEN doc[i] ELSE 0)

XmlEvent(kind, name, content, next) ==
    [kind |-> kind, name |-> name, content |-> content, next |-> next]

\* markup that ends at the pattern found at position end
ReadUntil(kind, doc, from, end, width) ==
    IF end = 0 THEN XmlEvent("Err", <<>>, <<>>, Len(doc) + 1)
    ELSE XmlEvent(kind, TrimEnd(SubSeq(doc, from, end - 1)), <<>>, end + width)

\* a start tag or an empty-element tag: the name ends at the first white
\* space, the rest holds the attributes
ReadStart(doc, from, end, name_end) ==
    IF end = 0 THEN XmlEvent("Err", <<>>, <<>>, Len(doc) + 1)
    ELSE XmlEvent(IF end > from /\ doc[end - 1] = 47 THEN "Empty" ELSE "Start",
                  SubSeq(doc, from, name_end - 1),
                  SubSeq(doc, name_end, end - 1), end + 1)

RECURSIVE NameEnd(_, _, _)
NameEnd(doc, i, end) ==
    IF i >= end THEN i
    ELSE IF IsXmlSpace(doc[i]) THEN i
    ELSE NameEnd(doc, i + 1, end)

\* the markup that starts with the < at position j
ReadMarkup(doc, j) ==
    IF j = Len(doc) THEN XmlEvent("Err", <<>>, <<>>, Len(doc) + 1)
    ELSE IF doc[j + 1] = 47
    THEN ReadUntil("End", doc, j + 2, FindSeq(doc, j + 2, <<62>>), 1)
    ELSE IF doc[j + 1] = 63
    THEN ReadUntil("Other", doc, j + 2, FindSeq(doc, j + 2, <<63, 62>>), 2)
    ELSE IF j + 3 <= Len(doc) /\ SubSeq(doc, j, j + 3) = <<60, 33, 45, 45>>
    THEN ReadUntil("Other", doc, j + 4, FindSeq(doc, j + 4, <<45, 45, 62>>), 3)
    ELSE IF j + 8 <= Len(doc) /\ SubSeq(doc, j, j + 8) = <<60, 33, 91, 67, 68, 65, 84, 65, 91>>
    THEN ReadUntil("Other", doc, j + 9, FindSeq(doc, j + 9, <<93, 93, 62>>), 3)
    ELSE IF doc[j + 1] = 33
    THEN ReadUntil("Other", doc, j + 2, FindSeq(doc, j + 2, <<62>>), 1)
    ELSE ReadStart(doc, j + 1, FindTagEnd(doc, j + 1, 0),
                   NameEnd(doc, j + 1, FindTagEnd(doc, j + 1, 0)))

\* character data from j to the next <, without its trailing white space
ReadText(doc, j, lt) ==
    IF lt = 0 THEN XmlEvent("Text", <<>>, TrimEnd(SubSeq(doc, j, Len(doc))), Len(doc) + 1)
    ELSE XmlEvent("Text", <<>>, TrimEnd(SubSeq(doc, j, lt - 1)), lt)

ReadEventAt(doc, j) ==
    IF j > Len(doc) THEN XmlEvent("Eof", <<>>, <<>>, j)
    ELSE IF doc[j] = 60 THEN ReadMarkup(doc, j)
    ELSE ReadText(doc, j, FindSeq(doc, j, <<60>>))

\* reader.read_event_into: leading white space of text is skipped, text
\* of white space only gives no event
read_event_into(doc, i) == ReadEventAt(doc, SkipSpace(doc, i))

\* --- e.attributes() ---
\* one item of the iterator: a key and its raw value, or an error
AttrItem(ok, key, value) == [ok |-> ok, key |-> key, value |-> value]

RECURSIVE KeyEnd(_, _)
KeyEnd(s, i) ==
    IF i > Len(s) THEN i
    ELSE IF s[i] = 61 \/ IsXmlSpace(s[i]) THEN i
    ELSE KeyEnd(s, i + 1)

RECURSIVE Attributes(_, _, _)

\* the value between the quotes at open and close
AttrValue(s, seen, key, open, close) ==
    IF close = 0 THEN <<AttrItem(FALSE, key, <<>>)>>
    ELSE IF key \in seen THEN <<AttrItem(FALSE, key, <<>>)>>
    ELSE <<AttrItem(TRUE, key, SubSeq(s, open + 1, close - 1))>>
         \o Attributes(s, close + 1, seen \cup {key})

\* after the key: =, then a quoted value
AttrQuoted(s, seen, key, open) ==
    IF open > Len(s) \/ s[open] \notin {34, 39} THEN <<AttrItem(FALSE, key, <<>>)>>
    ELSE AttrValue(s, seen, key, open, FindSeq(s, open + 1, <<s[open]>>))

AttrEquals(s, seen, key, eq) ==
    IF eq > Len(s) \/ s[eq] # 61 THEN <<AttrItem(FALSE, key, <<>>)>>
    ELSE AttrQuoted(s, seen, key, SkipSpace(s, eq + 1))

AttrAt(s, seen, i) ==
    IF i > Len(s) THEN <<>>
    ELSE IF s[i] = 47 /\ i = Len(s) THEN <<>>
    ELSE AttrEquals(s, seen, SubSeq(s, i, KeyEnd(s, i) - 1), SkipSpace(s, KeyEnd(s, i)))

\* the items up to the first malformed or repeated attribute
Attributes(s, i, seen) == AttrAt(s, seen, SkipSpace(s, i))

\* .find(|a| a.as_ref().unwrap().key.as_ref() == key): the unwrap panics
\* on an error item met before the key is found
RECURSIVE FindAttribute(_, _)
FindAttribute(items, key) ==
    IF items = <<>> THEN [status |-> "None", value |-> <<>>]
    ELSE IF ~Head(items).ok THEN [status |-> "panic", value |-> <<>>]
    ELSE IF Head(items).key = key THEN [status |-> "Some", value |-> Head(items).value]
    ELSE FindAttribute(Tail(items), key)

\* --- e.unescape() ---
HexDigit(c) ==
    IF c \in 48..57 THEN c - 48
    ELSE IF c \in 65..70 THEN c - 55
    ELSE IF c \in 97..102 THEN c - 87
    ELSE 16

\* value of the digits in the base, -1 unless all are digits of the base
RECURSIVE ParseRadix(_, _, _)
ParseRadix(digits, base, acc) ==
    IF digits = <<>> THEN acc
    ELSE IF HexDigit(Head(digits)) >= base \/ acc > 1114111 THEN -1
    ELSE ParseRadix(Tail(digits), base, acc * base + HexDigit(Head(digits)))

\* the character an entity names, -1 if it names none
Entity(name) ==
    IF name = <<108, 116>> THEN 60
    ELSE IF name = <<103, 116>> THEN 62
    ELSE IF name = <<97, 109, 112>> THEN 38
    ELSE IF name = <<97, 112, 111, 115>> THEN 39
    ELSE IF name = <<113, 117, 111, 116>> THEN 34
    ELSE IF Len(name) > 2 /\ name[1] = 35 /\ name[2] = 120
    THEN ParseRadix(SubSeq(name, 3, Len(name)), 16, 0)
    ELSE IF Len(name) > 1 /\ name[1] = 35
    THEN ParseRadix(SubSeq(name, 2, Len(name)), 10, 0)
    ELSE -1

RECURSIVE unescape(_, _)

\* the text before the entity, the character it names, the rest
UnescapeEntity(before, c, rest) ==
    IF c < 1 \/ c > 1114111 \/ ~rest.ok THEN [ok |-> FALSE, str |-> <<>>]
    ELSE [ok |-> TRUE, str |-> before \o <<c>> \o rest.str]

UnescapeAt(raw, i, amp, semi) ==
    IF amp = 0 THEN [ok |-> TRUE, str |-> SubSeq(raw, i, Len(raw))]
    ELSE IF semi = 0 THEN [ok |-> FALSE, str |-> <<>>]
    ELSE UnescapeEntity(SubSeq(raw, i, amp - 1),
                        Entity(SubSeq(raw, amp + 1, semi - 1)),
                        unescape(raw, semi + 1))

\* the text from i with its entities replaced; an & that starts no
\* known entity is an error
unescape(raw, i) ==
    UnescapeAt(raw, i, FindSeq(raw, i, <<38>>),
               IF FindSeq(raw, i, <<38>>) = 0 THEN 0
               ELSE FindSeq(raw, FindSeq(raw, i, <<38>>) + 1, <<59>>))

\* ---------------------------------------------------------------------
\* The MARCXML parser (parser.rs, parse_marc_xml)
\* ---------------------------------------------------------------------
\* the leader a <record> start gives the new record
DefaultLeader ==
    [record_length |-> 0, record_status |-> 32, record_type |-> 32,
     bibliographic_level |-> 32, type_of_control |-> 32,
     character_coding_scheme |-> 32, indicator_count |-> 2,
     subfield_code_count |-> 2, base_address_of_data |-> 0,
     encoding_level |-> 32, descriptive_cataloging_form |-> 32,
     multipart_resource_record_level |-> 32,
     length_of_length_of_field_portion |-> 4,
     length_of_starting_character_position_portion |-> 5,
     length_of_implementation_defined_portion |-> 0, undefined |-> 32]

\* the locals of parse_marc_xml before the loop; an Option is a sequence
\* of at most one element
XmlLocals ==
    [records |-> <<>>, current_record |-> <<>>, current_field |-> <<>>,
     current_subfield |-> <<>>, current_tag |-> <<>>, current_value |-> <<>>,
     in_collection |-> FALSE]

XmlOk(st) == [status |-> "Ok", st |-> st]
XmlErr(status) == [status |-> status, st |-> XmlLocals]

\* b"controlfield": the tag attribute is required
StartControlField(st, tag) ==
    IF tag.status = "panic" THEN XmlErr("panic")
    ELSE IF tag.status = "None" THEN XmlErr("InvalidXml")
    ELSE XmlOk([st EXCEPT !.current_tag = tag.value, !.current_value = <<>>])

\* variant: a missing indicator becomes '0'
IndicatorDefaultZero(found) == IF found.value = <<>> THEN 48 ELSE found.value[1]

\* .chars().next().unwrap_or(' ') of an indicator that may be missing
Indicator(found) == IF found.value = <<>> THEN 32 ELSE found.value[1]

\* b"datafield": the tag attribute is required, ind1 and ind2 are not
StartDataField(st, tag, ind1, ind2) ==
    IF tag.status = "panic" THEN XmlErr("panic")
    ELSE IF tag.status = "None" THEN XmlErr("InvalidXml")
    ELSE IF ind1.status = "panic" \/ ind2.status = "panic" THEN XmlErr("panic")
    ELSE XmlOk([st EXCEPT !.current_field =
                    <<[tag |-> tag.value, ind1 |-> Indicator(ind1),
                       ind2 |-> Indicator(ind2), subfields |-> <<>>]>>])

\* b"subfield": the code attribute is required and not empty
StartSubfield(st, code) ==
    IF code.status = "panic" THEN XmlErr("panic")
    ELSE IF code.status = "None" \/ code.value = <<>> THEN XmlErr("InvalidXml")
    ELSE XmlOk([st EXCEPT !.current_subfield = <<[code |-> code.value[1], value |-> <<>>]>>,
                          !.current_value = <<>>])

\* Ok(Event::Start(e))
OnStart(st, name, attributes) ==
    IF name = XmlName.collection THEN XmlOk([st EXCEPT !.in_collection = TRUE])
    ELSE IF name = XmlName.record
    THEN XmlOk([st EXCEPT !.current_record =
                    <<[leader |-> DefaultLeader, control_fields |-> <<>>,
                       data_fields |-> <<>>]>>])
    ELSE IF name = XmlName.leader THEN XmlOk([st EXCEPT !.current_value = <<>>])
    ELSE IF name = XmlName.controlfield
    THEN StartControlField(st, FindAttribute(attributes, XmlName.tag))
    ELSE IF name = XmlName.datafield
    THEN StartDataField(st, FindAttribute(attributes, XmlName.tag),
                        FindAttribute(attributes, XmlName.ind1),
                        FindAttribute(attributes, XmlName.ind2))
    ELSE IF name = XmlName.subfield
    THEN StartSubfield(st, FindAttribute(attributes, XmlName.code))
    ELSE XmlOk(st)

\* b"leader" at its end: the text is used only when it has 24 bytes or more
EndLeader(st, value_bytes, overflow_checks) ==
    IF st.current_record = <<>> \/ Len(value_bytes) < LEADER_LEN THEN XmlOk(st)
    ELSE IF from_bytes(SubSeq(value_bytes, 1, LEADER_LEN), overflow_checks).status = "Ok"
    THEN XmlOk([st EXCEPT !.current_record[1].leader =
                    from_bytes(SubSeq(value_bytes, 1, LEADER_LEN), overflow_checks).leader])
    ELSE IF from_bytes(SubSeq(value_bytes, 1, LEADER_LEN), overflow_checks).status = "panic"
    THEN XmlErr("panic")
    ELSE XmlErr("InvalidLeader")

\* Ok(Event::End(e))
OnEnd(st, name, overflow_checks) ==
    IF name = XmlName.record
    THEN XmlOk([st EXCEPT !.records = st.records \o st.current_record,
                          !.current_record = <<>>])
    ELSE IF name = XmlName.leader
    THEN EndLeader(st, str_as_bytes(st.current_value), overflow_checks)
    ELSE IF name = XmlName.controlfield
    THEN XmlOk([st EXCEPT !.current_record =
                    IF st.current_record = <<>> THEN <<>>
                    ELSE <<[st.current_record[1] EXCEPT !.control_fields =
                              Append(@, [tag |-> st.current_tag,
                                         value |-> st.current_value])]>>,
                          !.current_tag = <<>>, !.current_value = <<>>])
    ELSE IF name = XmlName.datafield
    THEN XmlOk([st EXCEPT !.current_record =
                    IF st.current_record = <<>> THEN <<>>
                    ELSE <<[st.current_record[1] EXCEPT !.data_fields =
                              @ \o st.current_field]>>,
                          !.current_field = <<>>])
    ELSE IF name = XmlName.subfield
    THEN XmlOk([st EXCEPT !.current_field =
                    IF st.current_field = <<>> \/ st.current_subfield = <<>> THEN @
                    ELSE <<[st.current_field[1] EXCEPT !.subfields =
                              Append(@, [code |-> st.current_subfield[1].code,
                                         value |-> st.current_value])]>>,
                          !.current_subfield = <<>>, !.current_value = <<>>])
    ELSE XmlOk(st)

\* Ok(Event::Text(e)): e.unescape().unwrap_or_default()
OnText(st, unescaped) ==
    XmlOk([st EXCEPT !.current_value = IF unescaped.ok THEN unescaped.str ELSE <<>>])

\* after the loop: a record that was never closed is kept when it is the
\* only one and no collection was opened
XmlFinish(st) ==
    [status |-> "Ok",
     records |-> IF ~st.in_collection /\ st.records = <<>>
                 THEN st.current_record ELSE st.records]

RECURSIVE XmlLoop(_, _, _, _, _)

XmlContinue(doc, next, opened, overflow_checks, step) ==
    IF step.status = "Ok" THEN XmlLoop(doc, next, opened, step.st, overflow_checks)
    ELSE [status |-> step.status, records |-> <<>>]

\* one event of the reader; opened holds the names of the open elements,
\* which an end tag must match
XmlDispatch(doc, opened, st, overflow_checks, e) ==
    IF e.kind = "Eof" THEN XmlFinish(st)
    ELSE IF e.kind = "Err" THEN [status |-> "InvalidXml", records |-> <<>>]
    ELSE IF e.kind = "Start"
    THEN XmlContinue(doc, e.next, Append(opened, e.name), overflow_checks,
                     OnStart(st, e.name, Attributes(e.content, 1, {})))
    ELSE IF e.kind = "End"
    THEN IF opened = <<>> \/ opened[Len(opened)] # e.name
         THEN [status |-> "InvalidXml", records |-> <<>>]
         ELSE XmlContinue(doc, e.next, SubSeq(opened, 1, Len(opened) - 1),
                          overflow_checks, OnEnd(st, e.name, overflow_checks))
    ELSE IF e.kind = "Text"
    THEN XmlContinue(doc, e.next, opened, overflow_checks,
                     OnText(st, unescape(e.content, 1)))
    ELSE XmlLoop(doc, e.next, opened, st, overflow_checks)

\* the loop over reader.read_event_into
XmlLoop(doc, i, opened, st, overflow_checks) ==
    XmlDispatch(doc, opened, st, overflow_checks, read_event_into(doc, i))

\* parse_marc_xml(data, _format_encoding): the data must be UTF-8
parse_marc_xml(data, overflow_checks) ==
    IF ~from_utf8(data).ok THEN [status |-> "InvalidXml", records |-> <<>>]
    ELSE XmlLoop(from_utf8(data).str, 1, <<>>, XmlLocals, overflow_checks)

\* ---------------------------------------------------------------------
\* The entry points (parser.rs parse, helpers.rs from_slice)
\* ---------------------------------------------------------------------
\* parse(data, format_encoding): the format chooses the parser;
\* parse_unimarc_binary is parse_marc21_binary
parse(data, format, encoding, overflow_checks) ==
    IF format = "MarcXml" THEN parse_marc_xml(data, overflow_checks)
    ELSE parse_marc21_binary(data, encoding, overflow_checks, 0, <<>>)

\* variant: the record decoded last
LastRecord(result) ==
    IF result.status # "Ok" THEN [status |-> result.status, record |-> NoRecord]
    ELSE IF result.records = <<>> THEN [status |-> "Other", record |-> NoRecord]
    ELSE [status |-> "Ok", record |-> result.records[Len(result.records)]]

\* records.into_iter().next().ok_or_else(|| ParseError::Other(..)), after
\* the ? on the result of parse
FirstRecord(result) ==
    IF result.status # "Ok" THEN [status |-> result.status, record |-> NoRecord]
    ELSE IF result.records = <<>> THEN [status |-> "Other", record |-> NoRecord]
    ELSE [status |-> "Ok", record |-> result.records[1]]

\* from_slice(data, format_encoding); from_str and from_reader hand their
\* bytes to it
from_slice(data, format, encoding, overflow_checks) ==
    FirstRecord(parse(data, format, encoding, overflow_checks))

\* ---------------------------------------------------------------------
\* Inputs
\* ---------------------------------------------------------------------
MaxRecords == 2
MaxSubfields == 2
LongValueLen == 9994
LongFieldCount == 7

\* the leader of the repository's tests: "00100nam  2200024   4500"
TestLeader ==
    [record_length |-> 100, record_status |-> 110, record_type |-> 97,
     bibliographic_level |-> 109, type_of_control |-> 32,
     character_coding_scheme |-> 32, indicator_count |-> 2,
     subfield_code_count |-> 2, base_address_of_data |-> 24,
     encoding_level |-> 32, descriptive_cataloging_form |-> 32,
     multipart_resource_record_level |-> 32,
     length_of_length_of_field_portion |-> 4,
     length_of_starting_character_position_portion |-> 5,
     length_of_implementation_defined_portion |-> 0, undefined |-> 32]

Rec(control_fields, data_fields) ==
    [leader |-> TestLeader, control_fields |-> control_fields,
     data_fields |-> data_fields]

CF(tag, value) == [tag |-> tag, value |-> value]
DF(tag, subfields) == [tag |-> tag, ind1 |-> 49, ind2 |-> 48, subfields |-> subfields]
SF(code, value) == [code |-> code, value |-> value]

Tag001 == <<48, 48, 49>>
Tag008 == <<48, 48, 56>>
Tag100 == <<49, 48, 48>>
Tag245 == <<50, 52, 53>>
\* tags the serializer has to judge: "00", "2450", and "\u{e9}1" (two
\* characters, three bytes)
ShortTag == <<48, 48>>
LongTag == <<50, 52, 53, 48>>
TwoCharTag == <<233, 49>>

\* "", "A", " ", "\u{e9}", "\u{feff}B", "\u{20ac}"
ControlValues == {<<>>, <<65>>, <<32>>, <<233>>, <<65279, 66>>, <<8364>>}

SubfieldChoices == {SF(97, <<65>>), SF(98, <<>>), SF(97, <<233>>)}

SeqsUpTo(S, n) == UNION {[1..k -> S] : k \in 0..n}

\* the record of the specification's first scenario
ScenarioRecord ==
    Rec(<<CF(Tag001, <<111, 99, 110, 49, 50, 51>>)>>,
        <<DF(Tag245, <<SF(97, <<72, 101, 108, 108, 111, 32>>),
                       SF(98, <<119, 111, 114, 108, 100>>)>>)>>)

LongValue == [i \in 1..LongValueLen |-> 65]

\* fields that each fit the directory's four digits, in a record that
\* does not fit sixteen bits
LongRecord ==
    Rec(<<>>, [k \in 1..LongFieldCount |-> DF(Tag245, <<SF(97, LongValue)>>)])

\* one field whose image, terminator included, is 10000 bytes with the
\* bounds as written: its length does not fit the directory's four digits
OverlongFieldRecord ==
    Rec(<<>>, <<DF(Tag245, <<SF(97, LongValue \o <<65>>)>>)>>)

\* a leader whose count does not fit one digit, nor b'0' + count one byte
WideCountRecord ==
    [Rec(<<>>, <<>>) EXCEPT !.leader.indicator_count = 208]

OrderedRecords ==
    {Rec(c, d) :
        c \in {<<CF(Tag001, <<65>>), CF(Tag008, <<66>>)>>,
               <<CF(Tag008, <<66>>), CF(Tag001, <<65>>)>>},
        d \in {<<DF(Tag245, <<SF(97, <<65>>)>>), DF(Tag100, <<SF(98, <<66>>)>>)>>,
               <<DF(Tag100, <<SF(98, <<66>>)>>), DF(Tag245, <<SF(97, <<65>>)>>)>>}}

BadTagRecords ==
    {Rec(<<CF(ShortTag, <<65>>)>>, <<>>),
     Rec(<<>>, <<DF(LongTag, <<SF(97, <<65>>)>>)>>),
     Rec(<<>>, <<DF(TwoCharTag, <<SF(97, <<65>>)>>)>>)}

RecordSet ==
    {Rec(<<>>, <<>>)}
    \cup {Rec(<<CF(t, v)>>, <<>>) : t \in {Tag001, Tag008}, v \in ControlValues}
    \cup {Rec(<<>>, <<DF(Tag245, s)>>) : s \in SeqsUpTo(SubfieldChoices, MaxSubfields)}
    \cup OrderedRecords \cup BadTagRecords
    \cup {ScenarioRecord, LongRecord, WideCountRecord, OverlongFieldRecord}

\* the records that also appear in longer inputs
PairSet ==
    {Rec(<<>>, <<>>), ScenarioRecord, Rec(<<CF(ShortTag, <<65>>)>>, <<>>)}

InputRecordSeqs ==
    {<<r>> : r \in RecordSet} \cup SeqsUpTo(PairSet, MaxRecords)

\* Leader values for to_bytes
InputLeaders ==
    {[TestLeader EXCEPT !.record_length = n, !.base_address_of_data = b,
                        !.record_status = c, !.indicator_count = k,
                        !.undefined = u] :
        n \in {0, 12345, 65535}, b \in {24, 6789},
        c \in {110, 233, 256}, k \in {2, 10, 208}, u \in {32, 8364}}

\* byte strings for from_bytes: the test leader's image with other bytes at
\* positions 0-4, 5, 10 and 12-16, and two strings of the wrong length
\* "00000" "00075" "65535" "65536" "99999" "+0075" "0007a" " 0075"
FiveByteTexts ==
    {<<48, 48, 48, 48, 48>>, <<48, 48, 48, 55, 53>>, <<54, 53, 53, 51, 53>>,
     <<54, 53, 53, 51, 54>>, <<57, 57, 57, 57, 57>>, <<43, 48, 48, 55, 53>>,
     <<48, 48, 48, 55, 97>>, <<32, 48, 48, 55, 53>>}

TestLeaderBytes == to_bytes(TestLeader, FALSE).bytes

InputLeaderBytes ==
    {n \o <<s>> \o SubSeq(TestLeaderBytes, 7, 10) \o <<k>>
       \o SubSeq(TestLeaderBytes, 12, 12) \o b \o SubSeq(TestLeaderBytes, 18, 24) :
        n \in FiveByteTexts, s \in {110, 233}, k \in {50, 57, 47, 58, 97},
        b \in {<<48, 48, 48, 50, 52>>, <<57, 57, 57, 57, 57>>, <<48, 48, 48, 50, 120>>}}
    \cup {SubSeq(TestLeaderBytes, 1, 23), TestLeaderBytes \o <<32>>}

\* what may happen to a buffer between the serializer and the parser
Tampers ==
    {[kind |-> "truncate", n |-> n, at |-> 0, bytes |-> <<>>] : n \in {1, 10, 25}}
    \cup {[kind |-> "keep", n |-> n, at |-> 0, bytes |-> <<>>] : n \in {0, 23, 50}}
    \cup {[kind |-> "append", n |-> 0, at |-> 0, bytes |-> b] :
            b \in {<<32>>, [i \in 1..23 |-> 48]}}
    \cup {[kind |-> "overwrite", n |-> 0, at |-> 0, bytes |-> b] :
            b \in {<<48, 48, 48, 48, 48>>, <<48, 48, 49, 48, 48>>,
                   <<55, 48, 48, 48, 48>>}}

\* truncate drops the last n bytes, keep keeps the first n, append adds
\* bytes at the end, overwrite puts bytes at offset at
ApplyTamper(t, buf) ==
    IF t.kind = "truncate"
    THEN SubSeq(buf, 1, IF Len(buf) > t.n THEN Len(buf) - t.n ELSE 0)
    ELSE IF t.kind = "keep" THEN SubSeq(buf, 1, IF Len(buf) > t.n THEN t.n ELSE Len(buf))
    ELSE IF t.kind = "append" THEN buf \o t.bytes
    ELSE [i \in 1..Len(buf) |->
            IF i > t.at /\ i <= t.at + Len(t.bytes) THEN t.bytes[i - t.at] ELSE buf[i]]

\* --- buffers that were not made by the serializer ---
RF(tag, image) == [tag |-> tag, image |-> image]

\* field images: control images with and without terminator and an empty
\* one; data images with two subfields, an empty value, a delimiter
\* without code, bytes in front of the first delimiter, a terminator inside
\* a value, two delimiters in a row, a single byte, and an empty one
RawFields ==
    {RF(Tag001, <<65, 30>>), RF(Tag001, <<65>>), RF(Tag008, <<>>),
     RF(Tag245, <<49, 48, 31, 97, 65, 31, 98, 66, 30>>),
     RF(Tag245, <<49, 48, 31, 97, 30>>),
     RF(Tag245, <<49, 48, 31, 97, 65, 31, 30>>),
     RF(Tag245, <<49, 48, 88, 31, 97, 65, 30>>),
     RF(Tag245, <<49, 48, 31, 97, 65, 30, 66, 30>>),
     RF(Tag245, <<49, 48, 31, 31, 97, 65, 30>>),
     RF(Tag245, <<49, 48, 31, 97, 65>>),
     RF(Tag100, <<49>>), RF(Tag100, <<>>)}

\* the digits of a directory entry: as ISO 2709 wants them, or with a
\* sign, a letter or a space in front
EntryForms == {"digits", "plus_length", "plus_start", "letter_length", "space_start"}

EntryDigits(n, width, first) ==
    IF first = 0 THEN FormatZeroPadded(n, width)
    ELSE <<first>> \o FormatZeroPadded(n, width - 1)

RawEntry(f, start, form) ==
    f.tag
    \o EntryDigits(Len(f.image), 4,
                   IF form = "plus_length" THEN ASCII_PLUS
                   ELSE IF form = "letter_length" THEN 97 ELSE 0)
    \o EntryDigits(start, 5,
                   IF form = "plus_start" THEN ASCII_PLUS
                   ELSE IF form = "space_start" THEN 32 ELSE 0)

\* the directory of the fields, the first entry in the given form
RECURSIVE RawDirectory(_, _, _)
RawDirectory(fields, start, form) ==
    IF fields = <<>> THEN <<>>
    ELSE RawEntry(Head(fields), start, form)
         \o RawDirectory(Tail(fields), start + Len(Head(fields).image), "digits")

RECURSIVE RawDataArea(_)
RawDataArea(fields) ==
    IF fields = <<>> THEN <<>> ELSE Head(fields).image \o RawDataArea(Tail(fields))

\* what the leader declares: the lengths of the image, or a base address
\* or a record length that does not fit it
Frames == {"exact", "base_10", "base_0", "length_10_base_5", "length_10", "base_beyond"}

FramedLeader(base, length, frame) ==
    [TestLeader EXCEPT
        !.base_address_of_data =
            IF frame = "base_10" THEN 10
            ELSE IF frame = "base_0" THEN 0
            ELSE IF frame = "length_10_base_5" THEN 5
            ELSE IF frame = "base_beyond" THEN length + 1
            ELSE base,
        !.record_length =
            IF frame \in {"length_10_base_5", "length_10"} THEN 10 ELSE length]

\* one record image: leader, directory, terminator, data area, terminator
RawBuffer(fields, form, frame) ==
    to_bytes(FramedLeader(LEADER_LEN + DIR_ENTRY_LEN * Len(fields) + 1,
                          LEADER_LEN + DIR_ENTRY_LEN * Len(fields) + 1
                          + Len(RawDataArea(fields)) + 1, frame), FALSE).bytes
    \o RawDirectory(fields, 0, form) \o <<FIELD_TERMINATOR>>
    \o RawDataArea(fields) \o <<RECORD_TERMINATOR>>

RawBuffers ==
    {RawBuffer(fields, "digits", "exact") : fields \in SeqsUpTo(RawFields, 2)}
    \cup {RawBuffer(<<f>>, form, "exact") : f \in RawFields, form \in EntryForms}
    \cup {RawBuffer(<<f>>, "digits", frame) : f \in RawFields, frame \in Frames}
    \cup {RawBuffer(<<f>>, "digits", "exact") \o RawBuffer(<<g>>, "digits", "exact") :
            f \in {RF(Tag001, <<65, 30>>)}, g \in RawFields}

\* --- inputs of the MARCXML serializer and parser ---
\* values with the characters XML gives a meaning to, and with white space
\* "A", " ", "Hello ", "a<b", "a&b", "a>b", "&lt;", "é", ""
XmlValues ==
    {<<65>>, <<32>>, <<72, 101, 108, 108, 111, 32>>, <<97, 60, 98>>, <<97, 38, 98>>, <<97, 62, 98>>, <<38, 108, 116, 59>>, <<233>>, <<>>}

\* records that differ in one value, one indicator, one code, one tag or
\* in the leader
XmlRecordSet ==
    {ScenarioRecord}
    \cup {Rec(<<CF(Tag001, v)>>, <<>>) : v \in XmlValues}
    \cup {Rec(<<>>, <<DF(Tag245, <<SF(97, v)>>)>>) : v \in XmlValues}
    \cup {Rec(<<>>, <<[DF(Tag245, <<SF(c, <<65>>)>>) EXCEPT !.ind1 = i, !.tag = t]>>) :
            c \in {97, 38}, i \in {32, 60, 34}, t \in {Tag245, <<97, 34, 98>>}}
    \cup {[Rec(<<CF(Tag001, <<65>>)>>, <<>>) EXCEPT !.leader = l] :
            l \in {[TestLeader EXCEPT !.record_status = c, !.undefined = u,
                                      !.indicator_count = k] :
                    c \in {110, 233}, u \in {32, 48}, k \in {2, 208}}}

XmlRecordSeqs ==
    SeqsUpTo(XmlRecordSet, 1)
    \cup [1..2 -> {Rec(<<>>, <<DF(Tag245, <<SF(97, <<72, 101, 108, 108, 111, 32>>)>>)>>),
                   Rec(<<CF(Tag001, <<97, 38, 98>>)>>, <<>>),
                   [Rec(<<CF(Tag001, <<65>>)>>, <<>>) EXCEPT !.leader.record_status = 233]}]

\* leader texts of 10, 24 and 30 characters, one of 24 without digits at
\* the length positions, and none
XmlLeaderTexts ==
    {<<48, 48, 48, 48, 48, 110, 97, 109, 32, 97>>, <<48, 48, 49, 48, 48, 110, 97, 109, 32, 97, 50, 50, 48, 48, 48, 50, 52, 32, 97, 32, 52, 53, 48, 48>>, <<48, 48, 49, 48, 48, 110, 97, 109, 32, 97, 50, 50, 48, 48, 48, 50, 52, 32, 97, 32, 52, 53, 48, 48, 69, 88, 84, 82, 65, 33>>,
     <<97, 98, 99, 100, 101, 110, 97, 109, 32, 97, 50, 50, 48, 48, 48, 50, 52, 32, 97, 32, 52, 53, 48, 48>>, <<>>}

\* a document of one record, with the attributes of its three kinds of
\* field elements given as they stand in the start tags
XmlDocument(leader_text, control_attrs, data_attrs, subfield_attrs) ==
    XML_DECL \o StartTag(XmlName.record, XMLNS_ATTR)
    \o Element(XmlName.leader, <<>>, leader_text)
    \o Element(XmlName.controlfield, control_attrs, <<65>>)
    \o StartTag(XmlName.datafield, data_attrs)
    \o Element(XmlName.subfield, subfield_attrs, <<66>>)
    \o EndTag(XmlName.datafield) \o EndTag(XmlName.record)

\* documents with and without the attributes the parser looks for
InputXmlDocuments ==
    {XmlDocument(l, c, d, sf) :
        l \in XmlLeaderTexts,
        c \in {<<32, 116, 97, 103, 61, 34, 48, 48, 49, 34>>, <<>>, <<32, 84, 65, 71, 61, 34, 48, 48, 49, 34>>},
        d \in {<<32, 116, 97, 103, 61, 34, 50, 52, 53, 34, 32, 105, 110, 100, 49, 61, 34, 49, 34, 32, 105, 110, 100, 50, 61, 34, 48, 34>>, <<32, 105, 110, 100, 49, 61, 34, 49, 34, 32, 105, 110, 100, 50, 61, 34, 48, 34>>,
               <<32, 116, 97, 103, 61, 34, 50, 52, 53, 34, 32, 105, 110, 100, 50, 61, 34, 48, 34>>, <<32, 116, 97, 103, 61, 34, 50, 52, 53, 34, 32, 105, 110, 100, 49, 61, 34, 49, 34>>, <<32, 116, 97, 103, 61, 34, 50, 52, 53, 34>>,
               <<32, 116, 97, 103, 61, 34, 50, 52, 53, 34, 32, 105, 110, 100, 49, 61, 34, 34, 32, 105, 110, 100, 50, 61, 34, 48, 34>>},
        sf \in {<<32, 99, 111, 100, 101, 61, 34, 97, 34>>, <<>>, <<32, 99, 111, 100, 101, 61, 34, 34>>}}

\* documents whose element content arrives as several text events, and
\* documents whose element names carry a namespace prefix
XML_COMMENT == <<60, 33, 45, 45, 120, 45, 45, 62>>
MarcPrefix == <<109, 97, 114, 99, 58>>
\* the parts of an element's text with a comment between each two of them
RECURSIVE SplitText(_)
SplitText(parts) ==
    IF Len(parts) = 1 THEN parts[1]
    ELSE parts[1] \o XML_COMMENT \o SplitText(Tail(parts))
\* the attribute that binds the slim namespace, to the prefix if there is one
NamespaceAttr(prefix) ==
    IF prefix = <<>> THEN XMLNS_ATTR
    ELSE <<32, 120, 109, 108, 110, 115, 58>> \o SubSeq(prefix, 1, Len(prefix) - 1) \o <<61, 34, 104, 116, 116, 112, 58, 47, 47, 119, 119, 119, 46, 108, 111, 99, 46, 103, 111, 118, 47, 77, 65, 82, 67, 50, 49, 47, 115, 108, 105, 109, 34>>
FormDocument(prefix, leader_parts, control_parts, subfield_parts) ==
    XML_DECL \o StartTag(prefix \o XmlName.record, NamespaceAttr(prefix))
    \o Element(prefix \o XmlName.leader, <<>>, SplitText(leader_parts))
    \o Element(prefix \o XmlName.controlfield, <<32, 116, 97, 103, 61, 34, 48, 48, 49, 34>>, SplitText(control_parts))
    \o StartTag(prefix \o XmlName.datafield, <<32, 116, 97, 103, 61, 34, 50, 52, 53, 34, 32, 105, 110, 100, 49, 61, 34, 49, 34, 32, 105, 110, 100, 50, 61, 34, 48, 34>>)
    \o Element(prefix \o XmlName.subfield, <<32, 99, 111, 100, 101, 61, 34, 97, 34>>, SplitText(subfield_parts))
    \o EndTag(prefix \o XmlName.datafield) \o EndTag(prefix \o XmlName.record)
LeaderParts == {<<<<48, 48, 49, 48, 48, 110, 97, 109, 32, 97, 50, 50, 48, 48, 48, 50, 52, 32, 97, 32, 52, 53, 48, 48>>>>, <<<<48, 48, 49, 48, 48, 110, 97, 109, 32, 97, 50, 50, 48, 48, 48>>, <<50, 52, 32, 97, 32, 52, 53, 48, 48>>>>}
ControlParts == {<<<<65>>>>, <<<<65>>, <<66>>>>, <<<<65, 38, 97, 109, 112, 59>>, <<38, 108, 116, 59, 66>>>>}
SubfieldParts == {<<<<66>>>>, <<<<67>>, <<68>>>>}
Prefixes == {<<>>, MarcPrefix}
InputFormDocuments ==
    {FormDocument(p, l, c, sf) :
        p \in Prefixes, l \in LeaderParts, c \in ControlParts, sf \in SubfieldParts}


\* ---------------------------------------------------------------------
\* The state machine: one call of the library per step
\* ---------------------------------------------------------------------
\* strings for the conversion layer: "", "A", " ", "\u{e9}", "\u{feff}B",
\* "\u{20ac}", "\u{feff}", "A\u{feff}", "\u{1f600}", "a<b&c"
InputTexts ==
    ControlValues
    \cup {<<65279>>, <<65, 65279>>, <<128512>>, <<97, 60, 98, 38, 99>>}

\* a record image as ISO 2709 lays it out: the leader with the length and
\* the base address of the image, the 12-byte entries, 0x1E, the field
\* images, 0x1D
Iso2709Image(r, fields) ==
    to_bytes([r.leader EXCEPT
                !.base_address_of_data =
                    LEADER_LEN + DIR_ENTRY_LEN * Len(fields.directory_entries) + 1,
                !.record_length =
                    LEADER_LEN + DIR_ENTRY_LEN * Len(fields.directory_entries) + 1
                    + Len(fields.data_area) + 1], FALSE).bytes
    \o BuildDirectory(fields.directory_entries) \o <<FIELD_TERMINATOR>>
    \o fields.data_area \o <<RECORD_TERMINATOR>>

RECURSIVE Iso2709Buffer(_, _)
Iso2709Buffer(rs, enc) ==
    IF rs = <<>> THEN <<>>
    ELSE Iso2709Image(Head(rs),
            WriteFields(Head(rs), enc,
                WriteControlFields(Head(rs).control_fields, enc, <<>>, <<>>)))
         \o Iso2709Buffer(Tail(rs), enc)

\* records of well-formed buffers: ASCII values, valid tags
Iso2709Records ==
    {Rec(<<>>, <<>>), ScenarioRecord,
     Rec(<<>>, <<DF(Tag245, <<SF(97, <<65>>)>>), DF(Tag100, <<SF(98, <<66>>)>>)>>)}

VARIABLES
    pc,               \* which call comes next
    encoding,         \* the dialect's encoding
    overflow_checks,  \* the build: arithmetic overflow panics or wraps
    records,          \* the caller's records
    written,          \* what write returned: status, output, images
    data,             \* the buffer handed to parse
    parsed,           \* what parse returned: status, records
    leader,           \* the caller's Leader
    leader_bytes,     \* what to_bytes returned, or the caller's bytes
    leader_parsed,    \* what from_bytes returned
    leader_again,     \* to_bytes of the parsed leader
    text,             \* the caller's string
    text_bytes,       \* what convert_from_encoding returned
    text_back,        \* what convert_to_utf8 returned
    first,            \* what from_slice returned: status, record
    loop              \* the parser's locals, when it runs one iteration at a time

vars == <<pc, encoding, overflow_checks, records, written, data, parsed,
          leader, leader_bytes, leader_parsed, leader_again,
          text, text_bytes, text_back, first, loop>>

textVars == <<text, text_bytes, text_back>>
sliceVars == <<first>>
loopVars == <<loop>>

NoWrite == [status |-> "none", output |-> <<>>, images |-> <<>>]
NoParse == [status |-> "none", records |-> <<>>]
NoBytes == [status |-> "none", bytes |-> <<>>]
NoFromBytes == [status |-> "none", leader |-> NoLeader]

NoText == [ok |-> FALSE, bytes |-> <<>>]
NoString == [ok |-> FALSE, str |-> <<>>]
NoFirst == [status |-> "none", record |-> NoRecord]

Init ==
    /\ overflow_checks \in BOOLEAN
    /\ written = NoWrite /\ parsed = NoParse
    /\ leader_parsed = NoFromBytes /\ leader_again = NoBytes
    /\ text_bytes = NoText /\ text_back = NoString
    /\ first = NoFirst /\ loop = NoLoop
    /\ \/ /\ pc = "write"
          /\ encoding \in Encodings
          /\ records \in InputRecordSeqs
          /\ data = <<>> /\ text = <<>>
          /\ leader = NoLeader /\ leader_bytes = NoBytes
       \/ /\ pc = "to_bytes"
          /\ encoding = "Utf8" /\ records = <<>>
          /\ data = <<>> /\ text = <<>>
          /\ leader \in InputLeaders /\ leader_bytes = NoBytes
       \/ /\ pc = "from_bytes"
          /\ encoding = "Utf8" /\ records = <<>>
          /\ data = <<>> /\ text = <<>>
          /\ leader = NoLeader
          /\ leader_bytes \in {[status |-> "Ok", bytes |-> b] : b \in InputLeaderBytes}
       \/ /\ pc = "decode"
          /\ encoding \in Encodings
          /\ records \in SeqsUpTo(Iso2709Records, MaxRecords)
          /\ data = Iso2709Buffer(records, encoding)
          /\ text = <<>>
          /\ leader = NoLeader /\ leader_bytes = NoBytes
       \/ /\ pc = "encode_text"
          /\ encoding \in Encodings /\ records = <<>>
          /\ data = <<>> /\ text \in InputTexts
          /\ leader = NoLeader /\ leader_bytes = NoBytes
       \/ /\ pc = "buffer"
          /\ encoding = "Utf8" /\ records = <<>>
          /\ data \in RawBuffers
          /\ text = <<>>
          /\ leader = NoLeader /\ leader_bytes = NoBytes
       \/ /\ pc = "write_xml"
          /\ encoding = "Utf8" /\ records \in XmlRecordSeqs
          /\ data = <<>> /\ text = <<>>
          /\ leader = NoLeader /\ leader_bytes = NoBytes
       \/ /\ pc = "parse_xml"
          /\ encoding = "Utf8" /\ records = <<>>
          /\ data \in {str_as_bytes(d) : d \in InputXmlDocuments}
          /\ text = <<>>
          /\ leader = NoLeader /\ leader_bytes = NoBytes
       \/ /\ pc = "parse_xml_form"
          /\ encoding = "Utf8" /\ records = <<>>
          /\ data \in {str_as_bytes(d) : d \in InputFormDocuments}
          /\ text = <<>>
          /\ leader = NoLeader /\ leader_bytes = NoBytes

\* write(records, dialect, output) under a binary family
Write ==
    /\ pc = "write"
    /\ written' = write_marc21_binary(records, encoding, overflow_checks, <<>>, <<>>)
    /\ data' = written'.output
    /\ pc' = "written"
    /\ UNCHANGED <<encoding, overflow_checks, records, parsed, leader,
                   leader_bytes, leader_parsed, leader_again, textVars, sliceVars, loopVars>>

\* the buffer is cut, extended or overwritten before it is parsed
Tamper ==
    /\ pc = "written"
    /\ written.status = "Ok"
    /\ \E t \in Tampers : data' = ApplyTamper(t, data) /\ data' # data
    /\ pc' = "tampered"
    /\ UNCHANGED <<encoding, overflow_checks, records, written, parsed, leader,
                   leader_bytes, leader_parsed, leader_again, textVars, sliceVars, loopVars>>

\* parse(data, dialect) under a binary family
Parse ==
    /\ pc \in {"written", "tampered", "buffer"}
    /\ parsed' = parse_marc21_binary(data, encoding, overflow_checks, 0, <<>>)
    /\ pc' = IF pc = "written" THEN "parsed"
             ELSE IF pc = "tampered" THEN "parsed_tampered" ELSE "buffer_parsed"
    /\ UNCHANGED <<encoding, overflow_checks, records, written, data, leader,
                   leader_bytes, leader_parsed, leader_again, textVars, sliceVars, loopVars>>

\* leader.to_bytes()
LeaderToBytes ==
    /\ pc = "to_bytes"
    /\ leader_bytes' = to_bytes(leader, overflow_checks)
    /\ pc' = "from_bytes"
    /\ UNCHANGED <<encoding, overflow_checks, records, written, data, parsed,
                   leader, leader_parsed, leader_again, textVars, sliceVars, loopVars>>

\* Leader::from_bytes(bytes)
LeaderFromBytes ==
    /\ pc = "from_bytes"
    /\ leader_bytes.status = "Ok"
    /\ leader_parsed' = from_bytes(leader_bytes.bytes, overflow_checks)
    /\ pc' = "to_bytes_again"
    /\ UNCHANGED <<encoding, overflow_checks, records, written, data, parsed,
                   leader, leader_bytes, leader_again, textVars, sliceVars, loopVars>>

\* to_bytes of the leader from_bytes returned
LeaderToBytesAgain ==
    /\ pc = "to_bytes_again"
    /\ leader_parsed.status = "Ok"
    /\ leader_again' = to_bytes(leader_parsed.leader, overflow_checks)
    /\ pc' = "done"
    /\ UNCHANGED <<encoding, overflow_checks, records, written, data, parsed,
                   leader, leader_bytes, leader_parsed, textVars, sliceVars, loopVars>>

\* parse of a buffer that was not made by this serializer
Decode ==
    /\ pc = "decode"
    /\ parsed' = parse_marc21_binary(data, encoding, overflow_checks, 0, <<>>)
    /\ pc' = "decoded"
    /\ UNCHANGED <<encoding, overflow_checks, records, written, data, leader,
                   leader_bytes, leader_parsed, leader_again, textVars, sliceVars, loopVars>>

\* write of the records that parse returned
Reencode ==
    /\ pc = "decoded"
    /\ parsed.status = "Ok"
    /\ written' = write_marc21_binary(parsed.records, encoding, overflow_checks,
                                      <<>>, <<>>)
    /\ pc' = "reencoded"
    /\ UNCHANGED <<encoding, overflow_checks, records, data, parsed, leader,
                   leader_bytes, leader_parsed, leader_again, textVars, sliceVars, loopVars>>

\* convert_from_encoding(text, encoding)
EncodeText ==
    /\ pc = "encode_text"
    /\ text_bytes' = convert_from_encoding(text, encoding)
    /\ pc' = "decode_text"
    /\ UNCHANGED <<encoding, overflow_checks, records, written, data, parsed,
                   leader, leader_bytes, leader_parsed, leader_again, text, text_back,
                   sliceVars, loopVars>>

\* convert_to_utf8 of the bytes convert_from_encoding returned
DecodeText ==
    /\ pc = "decode_text"
    /\ text_bytes.ok
    /\ text_back' = convert_to_utf8(text_bytes.bytes, encoding)
    /\ pc' = "text_done"
    /\ UNCHANGED <<encoding, overflow_checks, records, written, data, parsed,
                   leader, leader_bytes, leader_parsed, leader_again, text, text_bytes,
                   sliceVars, loopVars>>

\* write(records, dialect, output) under marcxml; the status and the
\* bytes that reached the output
WriteXml ==
    /\ pc = "write_xml"
    /\ written' = [status |-> write_marc_xml(records, overflow_checks).status,
                   output |-> str_as_bytes(write_marc_xml(records, overflow_checks).output),
                   images |-> <<>>]
    /\ data' = written'.output
    /\ pc' = "xml_written"
    /\ UNCHANGED <<encoding, overflow_checks, records, parsed, leader,
                   leader_bytes, leader_parsed, leader_again, textVars, sliceVars, loopVars>>

\* parse(data, dialect) under marcxml, of the serializer's output or of a
\* document that was not made by it
ParseXml ==
    /\ pc \in {"xml_written", "parse_xml", "parse_xml_form"}
    /\ pc = "xml_written" => written.status = "Ok"
    /\ parsed' = parse_marc_xml(data, overflow_checks)
    /\ pc' = IF pc = "xml_written" THEN "xml_parsed"
             ELSE IF pc = "parse_xml" THEN "xml_document_parsed"
             ELSE "xml_form_parsed"
    /\ UNCHANGED <<encoding, overflow_checks, records, written, data, leader,
                   leader_bytes, leader_parsed, leader_again, textVars, sliceVars, loopVars>>

\* from_slice(data, dialect) of a buffer or a document; parsed keeps the
\* records its call of parse returned
FromSlice ==
    /\ pc \in {"written", "tampered", "decode", "buffer", "xml_written", "parse_xml"}
    /\ pc = "xml_written" => written.status = "Ok"
    /\ \E format \in (IF pc \in {"xml_written", "parse_xml"}
                      THEN {"MarcXml"} ELSE {"Marc21", "Unimarc"}) :
          /\ parsed' = parse(data, format, encoding, overflow_checks)
          /\ first' = from_slice(data, format, encoding, overflow_checks)
    /\ pc' = IF pc \in {"xml_written", "parse_xml"} THEN "from_slice_xml"
             ELSE "from_slice"
    /\ UNCHANGED <<encoding, overflow_checks, records, written, data, leader,
                   leader_bytes, leader_parsed, leader_again, textVars, loopVars>>

Next ==
    \/ Write
    \/ Tamper
    \/ Parse
    \/ LeaderToBytes
    \/ LeaderFromBytes
    \/ LeaderToBytesAgain
    \/ Decode
    \/ Reencode
    \/ EncodeText
    \/ DecodeText
    \/ WriteXml
    \/ ParseXml
    \/ FromSlice

Spec == Init /\ [][Next]_vars

\* --- the parser run one loop iteration at a time ---
\* parse(data, format) under a binary family, at the head of the record loop
LoopInit ==
    /\ pc = "loop"
    /\ overflow_checks \in BOOLEAN
    /\ encoding = "Utf8" /\ records = <<>>
    /\ data \in RawBuffers
    /\ written = NoWrite /\ parsed = NoParse
    /\ leader = NoLeader /\ leader_bytes = NoBytes
    /\ leader_parsed = NoFromBytes /\ leader_again = NoBytes
    /\ text = <<>> /\ text_bytes = NoText /\ text_back = NoString
    /\ first = NoFirst
    /\ loop = [NoLoop EXCEPT !.at = "record_loop"]

loopFrame == <<pc, encoding, overflow_checks, records, written, data, parsed, leader, leader_bytes, leader_parsed, leader_again, textVars, sliceVars>>

RecordLoop ==
    /\ pc = "loop" /\ loop.at = "record_loop"
    /\ loop' = RecordLoopStep(loop, data, overflow_checks)
    /\ UNCHANGED loopFrame

DirectoryLoop ==
    /\ pc = "loop" /\ loop.at = "directory_loop"
    /\ loop' = DirectoryLoopStep(loop, data, encoding)
    /\ UNCHANGED loopFrame

SubfieldLoop ==
    /\ pc = "loop" /\ loop.at = "subfield_loop"
    /\ loop' = SubfieldLoopStep(loop, encoding)
    /\ UNCHANGED loopFrame

LoopNext ==
    \/ RecordLoop
    \/ DirectoryLoop
    \/ SubfieldLoop

\* the thread that called parse runs until the call returns
LoopSpec == LoopInit /\ [][LoopNext]_vars /\ WF_vars(LoopNext)

\* ---------------------------------------------------------------------
\* Reading an emitted image, and the inputs the claims speak of
\* ---------------------------------------------------------------------
Written == pc \in {"written", "tampered", "parsed", "parsed_tampered"}
Parsed == pc \in {"parsed", "parsed_tampered"}

\* positions 0-4 and 12-16 of an image, read as decimal numbers
EmittedLength(image) == DigitsValue(Slice(image, 0, 5))
EmittedBase(image) == DigitsValue(Slice(image, 12, 17))

IsReserved(c) == c \in {RECORD_TERMINATOR, FIELD_TERMINATOR, SUBFIELD_DELIMITER}

ReservedFree(value) == \A i \in 1..Len(value) : ~IsReserved(value[i])

AsciiTag(tag) == Len(tag) = 3 /\ \A i \in 1..3 : tag[i] < 128

ValidRecord(r) ==
    /\ \A i \in 1..Len(r.control_fields) :
        /\ AsciiTag(r.control_fields[i].tag)
        /\ BytesLess(r.control_fields[i].tag, TAG_010)
        /\ ReservedFree(r.control_fields[i].value)
    /\ \A i \in 1..Len(r.data_fields) :
        /\ AsciiTag(r.data_fields[i].tag)
        /\ ~BytesLess(r.data_fields[i].tag, TAG_010)
        /\ \A j \in 1..Len(r.data_fields[i].subfields) :
            ReservedFree(r.data_fields[i].subfields[j].value)

\* the record with the length and the base address of its own image
WithConsistentLeader(r, w) ==
    [r EXCEPT !.leader.record_length = Len(w.image),
              !.leader.base_address_of_data = LEADER_LEN + Len(w.directory)]

\* the positions of a leader that the data model says hold digits (0-based)
RequiredDigitPositions == (0..4) \cup (12..16) \cup CountPositions

WellFormedLeaderBytes(b) ==
    Len(b) = LEADER_LEN /\ \A p \in RequiredDigitPositions : IsDigit(b[p + 1])

\* the field entry j of the directory was built from
EntryField(r, j) ==
    IF j <= Len(r.control_fields)
    THEN [control_fields |-> <<r.control_fields[j]>>, data_fields |-> <<>>]
    ELSE [control_fields |-> <<>>,
          data_fields |-> <<r.data_fields[j - Len(r.control_fields)]>>]

\* what the parser makes of one field image under a tag
DecodedField(tag, field_data) ==
    ParseField(<<>>, <<>>, 0, NoLeader, encoding, <<>>, <<>>,
               str_as_bytes(tag), field_data)

\* the directory of an image as the parser reads it: 12 bytes an entry
WireEntries(image) ==
    [j \in 1..((EmittedBase(image) - LEADER_LEN) \div DIR_ENTRY_LEN) |->
        [tag |-> Slice(image, LEADER_LEN + DIR_ENTRY_LEN * (j - 1),
                       LEADER_LEN + DIR_ENTRY_LEN * (j - 1) + 3),
         length |-> parse_usize(Slice(image, LEADER_LEN + DIR_ENTRY_LEN * (j - 1) + 3,
                                      LEADER_LEN + DIR_ENTRY_LEN * (j - 1) + 7)).val]]

IsControlEntry(e) == BytesLess(e.tag, TAG_010)
IsStoredDataEntry(e) == ~BytesLess(e.tag, TAG_010) /\ e.length > 0

TagBytes(fields) == [j \in 1..Len(fields) |-> str_as_bytes(fields[j].tag)]
EntryTags(entries) == [j \in 1..Len(entries) |-> entries[j].tag]

\* where record k of a decoded buffer starts: the sum of the lengths before
RECURSIVE RecordOffset(_, _)
RecordOffset(recs, k) ==
    IF k = 1 THEN 0
    ELSE RecordOffset(recs, k - 1) + recs[k - 1].leader.record_length

RecordImage(recs, k) ==
    Slice(data, RecordOffset(recs, k),
          RecordOffset(recs, k) + recs[k].leader.record_length)

\* every directory entry of image w is 12 bytes
TwelveByteEntries(w) ==
    \A j \in 1..Len(w.directory_entries) :
        /\ Len(str_as_bytes(w.directory_entries[j].tag)) = 3
        /\ w.directory_entries[j].length < 10000
        /\ w.directory_entries[j].start < 100000

\* ---------------------------------------------------------------------
\* The claims
\* ---------------------------------------------------------------------

\* C1: binary round-trip.  For records with valid tags, no reserved byte in
\* a value and a leader that carries the length and base address of the
\* encoding, decoding the encoding under the same dialect returns the
\* records: same leaders, control fields and data fields.
C1_BinaryRoundTrip ==
    (/\ pc = "parsed"
     /\ written.status = "Ok"
     /\ \A k \in 1..Len(records) :
            ValidRecord(records[k]) /\ Len(written.images[k].image) < U16)
    => /\ parsed.status = "Ok"
       /\ Len(parsed.records) = Len(records)
       /\ \A k \in 1..Len(records) :
            parsed.records[k] = WithConsistentLeader(records[k], written.images[k])

\* C2: self-describing length.  The first five bytes of every emitted
\* record image, read as a decimal number, are the number of bytes of the
\* image, whatever its size.
C2_SelfDescribingLength ==
    Written => \A k \in 1..Len(written.images) :
        EmittedLength(written.images[k].image) = Len(written.images[k].image)

\* C3: encoded layout.  A record with n fields is emitted with its n
\* directory entries and one 0x1E after them: the emitted base address is
\* 24 + 12n + 1 and the byte before the data area is 0x1E; a record without
\* fields is a 26-byte image with length 26 and base address 25.
C3_EncodedLayout ==
    Written => \A k \in 1..Len(written.images) :
        LET image == written.images[k].image
            n == Len(written.images[k].directory_entries)
        IN  TwelveByteEntries(written.images[k]) =>
            /\ EmittedBase(image) = LEADER_LEN + DIR_ENTRY_LEN * n + 1
            /\ image[EmittedBase(image)] = FIELD_TERMINATOR
            /\ (n = 0 => /\ Len(image) = 26
                         /\ EmittedLength(image) = 26
                         /\ EmittedBase(image) = 25)

\* C4: directory consistency.  For every directory entry (tag, length,
\* start) of an emitted image, with base the base address in the image's
\* leader: the range [base + start, base + start + length) lies inside the
\* image, its last byte is 0x1E, and decoding the range gives back the
\* field the entry was built from.
C4_DirectoryConsistency ==
    Written => \A k \in 1..Len(written.images) :
        \A j \in 1..Len(written.images[k].directory_entries) :
            LET image == written.images[k].image
                e == written.images[k].directory_entries[j]
                lo == EmittedBase(image) + e.start
                decoded == DecodedField(e.tag, Slice(image, lo, lo + e.length))
            IN  /\ lo + e.length <= Len(image)
                /\ image[lo + e.length] = FIELD_TERMINATOR
                /\ decoded.status = "Ok"
                /\ decoded.record.control_fields = EntryField(records[k], j).control_fields
                /\ decoded.record.data_fields = EntryField(records[k], j).data_fields

\* C5, the serializer's half: the directory triples, the 12-byte directory
\* entries and the field images come in the order control_fields[0], ...,
\* then data_fields[0], ..., each image right after the one before.
C5_WriterOrder ==
    pc = "written" => \A k \in 1..Len(written.images) :
        LET w == written.images[k]
            r == records[k]
            ncf == Len(r.control_fields)
            e == w.directory_entries
        IN  /\ Len(e) = ncf + Len(r.data_fields)
            /\ \A j \in 1..Len(e) :
                /\ e[j].start = IF j = 1 THEN 0 ELSE e[j - 1].start + e[j - 1].length
                /\ TwelveByteEntries(w) =>
                       Slice(w.directory, DIR_ENTRY_LEN * (j - 1),
                             DIR_ENTRY_LEN * (j - 1) + 3) = str_as_bytes(e[j].tag)
            /\ \A j \in 1..ncf :
                /\ e[j].tag = r.control_fields[j].tag
                /\ Slice(w.data_area, e[j].start, e[j].start + e[j].length)
                   = convert_from_encoding(r.control_fields[j].value, encoding).bytes
                     \o <<FIELD_TERMINATOR>>
            /\ \A j \in 1..Len(r.data_fields) :
                /\ e[ncf + j].tag = r.data_fields[j].tag
                /\ Slice(w.data_area, e[ncf + j].start,
                         e[ncf + j].start + e[ncf + j].length)
                   = WriteSubfields(r.data_fields[j].subfields, encoding,
                        <<r.data_fields[j].ind1 % U8, r.data_fields[j].ind2 % U8>>).field_data
                     \o <<FIELD_TERMINATOR>>

\* C5, the parser's half: the control fields of a decoded record are the
\* directory entries with a tag below "010", in directory order, and its
\* data fields are the other entries with a non-empty image, in directory
\* order.
C5_ParserOrder ==
    (Parsed /\ parsed.status = "Ok") => \A k \in 1..Len(parsed.records) :
        /\ TagBytes(parsed.records[k].control_fields)
           = EntryTags(SelectSeq(WireEntries(RecordImage(parsed.records, k)),
                                 IsControlEntry))
        /\ TagBytes(parsed.records[k].data_fields)
           = EntryTags(SelectSeq(WireEntries(RecordImage(parsed.records, k)),
                                 IsStoredDataEntry))

\* C5: order preservation.  The serializer emits directory entries and
\* field images in the order of control_fields, then data_fields; the
\* parser appends the decoded fields in directory order; so a record that
\* is encoded and decoded has its control fields and its data fields in the
\* order they had in memory.
C5_OrderPreservation ==
    /\ C5_WriterOrder
    /\ C5_ParserOrder
    /\ (/\ pc = "parsed" /\ written.status = "Ok" /\ parsed.status = "Ok"
        /\ \A k \in 1..Len(records) : ValidRecord(records[k]))
       => /\ Len(parsed.records) = Len(records)
          /\ \A k \in 1..Len(records) :
                /\ TagBytes(parsed.records[k].control_fields)
                   = TagBytes(records[k].control_fields)
                /\ TagBytes(parsed.records[k].data_fields)
                   = TagBytes(records[k].data_fields)

\* C5 witness: a record whose control fields are 008 then 001 and whose
\* data fields are 245 then 100 was written and decoded, fields in place.
C5_Witness ==
    /\ pc = "parsed"
    /\ parsed.status = "Ok"
    /\ Len(records) = 1
    /\ TagBytes(records[1].control_fields) = <<Tag008, Tag001>>
    /\ TagBytes(records[1].data_fields) = <<Tag245, Tag100>>
    /\ TagBytes(parsed.records[1].control_fields) = <<Tag008, Tag001>>
    /\ TagBytes(parsed.records[1].data_fields) = <<Tag245, Tag100>>

\* C6: leader round-trip.  For every Leader value, to_bytes returns exactly
\* 24 bytes and from_bytes of them succeeds and equals the leader in all 16
\* fields.
C6_LeaderRoundTrip ==
    (leader # NoLeader /\ pc \in {"from_bytes", "to_bytes_again", "done"})
    => /\ leader_bytes.status = "Ok"
       /\ Len(leader_bytes.bytes) = LEADER_LEN
       /\ (pc # "from_bytes"
           => leader_parsed.status = "Ok" /\ leader_parsed.leader = leader)

\* C7: from_bytes fails for every input whose length is not 24 and for
\* every 24-byte input with a byte that is not an ASCII digit at one of the
\* positions 0-4, 12-16, 10, 11, 20, 21, 22.
C7_BadLeaderRejected ==
    (/\ leader = NoLeader
     /\ pc \in {"to_bytes_again", "done"}
     /\ ~WellFormedLeaderBytes(leader_bytes.bytes))
    => leader_parsed.status = "Err"

\* C8: from_bytes accepts every 24-byte leader whose positions 0-4 and
\* 12-16 are five digits (any value 0..99999) and whose positions 10, 11,
\* 20, 21, 22 are digits, and to_bytes of the result is the same 24 bytes.
C8_WellFormedLeaderAccepted ==
    (/\ leader = NoLeader
     /\ pc \in {"to_bytes_again", "done"}
     /\ WellFormedLeaderBytes(leader_bytes.bytes))
    => /\ leader_parsed.status = "Ok"
       /\ (pc = "done" => leader_again = [status |-> "Ok", bytes |-> leader_bytes.bytes])

\* the offsets at which the parser reads a leader in data: 0, and the end
\* of the first emitted image when data still starts with it and it decodes
LeaderOffsets ==
    {0} \cup
    {Len(written.images[k].image) : k \in
        {k \in 1..Len(written.images) :
            /\ k = 1
            /\ Len(written.images[1].image) < U16
            /\ Len(data) >= Len(written.images[1].image)
            /\ SubSeq(data, 1, Len(written.images[1].image)) = written.images[1].image
            /\ parse_marc21_binary(written.images[1].image, encoding,
                                   overflow_checks, 0, <<>>).status = "Ok"}}

\* the leader at offset is well formed and declares a length of 0 or one
\* beyond the bytes that remain
DeclaresBadLength(offset) ==
    /\ Len(data) - offset >= LEADER_LEN
    /\ WellFormedLeaderBytes(Slice(data, offset, offset + LEADER_LEN))
    /\ \/ EmittedLength(Slice(data, offset, offset + LEADER_LEN)) = 0
       \/ EmittedLength(Slice(data, offset, offset + LEADER_LEN)) > Len(data) - offset

\* C9: record segmentation error.  If the leader at the current offset
\* declares a length of 0 or more than the bytes that remain, the decode
\* call fails with InvalidRecordLength and returns no record, the ones
\* decoded before it included.
C9_RecordLengthError ==
    (Parsed /\ \E offset \in LeaderOffsets : DeclaresBadLength(offset))
    => parsed = [status |-> "InvalidRecordLength", records |-> <<>>]

\* what remains of data after the emitted output, when data starts with it
\* and the output decodes to the end
Padding == SubSeq(data, Len(written.output) + 1, Len(data))

PaddedOutput ==
    /\ pc = "parsed_tampered"
    /\ Len(data) > Len(written.output)
    /\ Len(data) - Len(written.output) < LEADER_LEN
    /\ SubSeq(data, 1, Len(written.output)) = written.output
    /\ \A k \in 1..Len(written.images) : Len(written.images[k].image) < U16

\* C10: end-of-stream tolerance.  A buffer of fewer than 24 bytes, the
\* empty one included, decodes to Ok with zero records; fewer than 24 bytes
\* after the last record are not an error, and the records decoded so far
\* are returned.
C10_EndOfStream ==
    /\ (Parsed /\ Len(data) < LEADER_LEN)
       => parsed = [status |-> "Ok", records |-> <<>>]
    /\ PaddedOutput
       => parsed = parse_marc21_binary(written.output, encoding, overflow_checks,
                                       0, <<>>)

\* C10 witness: two records were decoded from a buffer that ends with 23
\* bytes of padding.
C10_Witness ==
    /\ PaddedOutput
    /\ Len(Padding) = 23
    /\ parsed.status = "Ok"
    /\ Len(parsed.records) = 2

\* the field images and directory triples the serializer builds for r
EncodedFields(r) ==
    WriteFields(r, encoding, WriteControlFields(r.control_fields, encoding, <<>>, <<>>))

\* r has a field image of 10000 bytes or more, a start offset of 100000 or
\* more, or an image of 100000 bytes or more
FieldsTooWide(fields) ==
    /\ fields.ok
    /\ \/ \E j \in 1..Len(fields.directory_entries) :
            \/ fields.directory_entries[j].length >= 10000
            \/ fields.directory_entries[j].start >= 100000
       \/ LEADER_LEN + DIR_ENTRY_LEN * Len(fields.directory_entries)
          + Len(fields.data_area) + 1 >= 100000

\* C11: digit-width enforcement.  The serializer fails with InvalidRecord
\* for every record with a field image of 10000 bytes or more, a start
\* offset of 100000 or more, or a length that does not fit five digits; no
\* emitted directory entry is other than 12 bytes, and no emitted leader
\* has a length field that differs from the length of the image.
C11_DigitWidthEnforcement ==
    pc = "written" =>
        /\ \A k \in 1..Len(written.images) :
            /\ TwelveByteEntries(written.images[k])
            /\ Len(written.images[k].directory)
               = DIR_ENTRY_LEN * Len(written.images[k].directory_entries)
            /\ EmittedLength(written.images[k].image) = Len(written.images[k].image)
        /\ \A k \in 1..Len(records) :
            (Len(written.images) >= k - 1 /\ FieldsTooWide(EncodedFields(records[k])))
            => Len(written.images) = k - 1 /\ written.status = "InvalidRecord"

\* the images of the records written so far, one after the other
RECURSIVE ConcatImages(_)
ConcatImages(images) ==
    IF images = <<>> THEN <<>>
    ELSE Head(images).image \o ConcatImages(Tail(images))

HasBadTag(r) ==
    \/ \E i \in 1..Len(r.control_fields) : ~AsciiTag(r.control_fields[i].tag)
    \/ \E i \in 1..Len(r.data_fields) : ~AsciiTag(r.data_fields[i].tag)

\* C12: tag enforcement.  For every record with a control or data field
\* whose tag is not exactly 3 ASCII characters, the binary serializer
\* fails with InvalidRecord and writes nothing for that record.
C12_TagEnforcement ==
    pc = "written" => \A k \in 1..Len(records) :
        (Len(written.images) >= k - 1 /\ HasBadTag(records[k]))
        => /\ written.status = "InvalidRecord"
           /\ Len(written.images) = k - 1
           /\ written.output = ConcatImages(written.images)

\* C14: decode-then-encode identity.  A buffer of concatenated well-formed
\* ISO 2709 records decodes to its records in order of appearance, and
\* encoding the decoded records under the same dialect gives the buffer
\* back byte for byte.
C14_DecodeEncodeIdentity ==
    (pc \in {"decoded", "reencoded"}) =>
        /\ parsed.status = "Ok"
        /\ Len(parsed.records) = Len(records)
        /\ \A k \in 1..Len(records) :
            /\ TagBytes(parsed.records[k].control_fields)
               = TagBytes(records[k].control_fields)
            /\ TagBytes(parsed.records[k].data_fields)
               = TagBytes(records[k].data_fields)
        /\ pc = "reencoded" => written.status = "Ok" /\ written.output = data

\* C15: UTF-8 identity.  Under the utf8 encoding convert_from_encoding(s)
\* is the UTF-8 form of s, and convert_to_utf8 of it succeeds and is s, for
\* every string s.
C15_Utf8Identity ==
    (encoding = "Utf8" /\ pc \in {"decode_text", "text_done"}) =>
        /\ text_bytes = [ok |-> TRUE, bytes |-> str_as_bytes(text)]
        /\ pc = "text_done" => text_back = [ok |-> TRUE, str |-> text]

\* the MARCXML text in front of record k + 1: the declaration, the start of
\* the collection wrapper and the complete elements of the k records before
XmlCompleteRecords(rs, k) ==
    XmlWriteRecords(SubSeq(rs, 1, k), overflow_checks,
        XML_DECL \o (IF Len(rs) > 1
                     THEN StartTag(XmlName.collection, XMLNS_ATTR) ELSE <<>>)).output

\* C13: failure atomicity of encoding.  When write fails with an error that
\* is not an I/O error while it encodes record k, no byte of record k has
\* reached the output: under a binary family the output is the complete
\* images of the records before k, under marcxml the output holds no
\* partial <record> element, it ends with the last complete record.
C13_FailureAtomicity ==
    /\ (pc = "written" /\ written.status \notin {"Ok", "panic"}) =>
          /\ Len(written.images) < Len(records)
          /\ written.output = ConcatImages(written.images)
          /\ \A j \in 1..Len(written.images) :
                written.images[j].image
                = write_single_marc21_binary(records[j], encoding,
                                             overflow_checks).image
    /\ (pc = "xml_written" /\ written.status \notin {"Ok", "panic"}) =>
          \E k \in 0..(Len(records) - 1) :
              written.output
              = str_as_bytes(XmlCompleteRecords(records, k))

\* the text the serializer wrote
XmlOutput == from_utf8(written.output).str

Occurs(pat, doc) == FindSeq(doc, 1, pat) # 0

\* well-formed as far as elements and character data go: every end tag
\* closes the element opened last, every & in character data starts an
\* entity, and no element is open at the end
RECURSIVE WellFormedFrom(_, _, _)
WellFormedFrom(doc, i, opened) ==
    LET e == read_event_into(doc, i)
    IN  IF e.kind = "Eof" THEN opened = <<>>
        ELSE IF e.kind = "Err" THEN FALSE
        ELSE IF e.kind = "Start"
        THEN WellFormedFrom(doc, e.next, Append(opened, e.name))
        ELSE IF e.kind = "End"
        THEN /\ opened # <<>> /\ opened[Len(opened)] = e.name
             /\ WellFormedFrom(doc, e.next, SubSeq(opened, 1, Len(opened) - 1))
        ELSE IF e.kind = "Text"
        THEN unescape(e.content, 1).ok /\ WellFormedFrom(doc, e.next, opened)
        ELSE WellFormedFrom(doc, e.next, opened)

\* C17: XML escaping.  In the output of the MARCXML serializer every
\* control-field value and every subfield value is XML-escaped: a value
\* with '<', '>' or '&' stands in its element as entity references, and
\* the output is well-formed XML for every record.
C17_XmlEscaping ==
    (pc = "xml_written" /\ written.status = "Ok") =>
        /\ \A k \in 1..Len(records) :
            /\ \A i \in 1..Len(records[k].control_fields) :
                Occurs(Element(XmlName.controlfield,
                               push_attribute(XmlName.tag, records[k].control_fields[i].tag),
                               escape(records[k].control_fields[i].value)),
                       XmlOutput)
            /\ \A i \in 1..Len(records[k].data_fields) :
                \A j \in 1..Len(records[k].data_fields[i].subfields) :
                    Occurs(Element(XmlName.subfield,
                                   push_attribute(XmlName.code,
                                       <<records[k].data_fields[i].subfields[j].code>>),
                                   escape(records[k].data_fields[i].subfields[j].value)),
                           XmlOutput)
        /\ WellFormedFrom(XmlOutput, 1, <<>>)

\* a value whose text in the document is the value itself: it holds none
\* of '<', '>', '&'
PlainValue(v) == \A n \in 1..Len(v) : v[n] \notin {60, 62, 38}

PlainRecord(r) ==
    /\ \A i \in 1..Len(r.control_fields) : PlainValue(r.control_fields[i].value)
    /\ \A i \in 1..Len(r.data_fields) :
          \A j \in 1..Len(r.data_fields[i].subfields) :
              PlainValue(r.data_fields[i].subfields[j].value)

\* the values of the control fields, and of the subfields field by field
ControlValuesOf(r) == [i \in 1..Len(r.control_fields) |-> r.control_fields[i].value]
SubfieldValuesOf(r) ==
    [i \in 1..Len(r.data_fields) |->
        [j \in 1..Len(r.data_fields[i].subfields) |-> r.data_fields[i].subfields[j].value]]

\* C18: XML whitespace preservation.  The MARCXML parser stores the text
\* of a <controlfield> or <subfield> as it stands in the document, leading
\* and trailing white space included: "Hello " decodes as "Hello ", a
\* single space decodes as a single space.
C18_XmlWhitespace ==
    (/\ pc = "xml_parsed" /\ parsed.status = "Ok"
     /\ \A k \in 1..Len(records) : PlainRecord(records[k])) =>
        /\ Len(parsed.records) = Len(records)
        /\ \A k \in 1..Len(records) :
            /\ ControlValuesOf(parsed.records[k]) = ControlValuesOf(records[k])
            /\ SubfieldValuesOf(parsed.records[k]) = SubfieldValuesOf(records[k])

\* C16: XML round-trip.  Decoding the MARCXML encoding of a sequence of
\* records returns as many records in the same order, each with the
\* control-field tags and values and the data-field tags, indicators,
\* subfield codes and subfield values of the original, values with '<',
\* '>' and '&' included.
C16_XmlRoundTrip ==
    pc = "xml_parsed" =>
        /\ parsed.status = "Ok"
        /\ Len(parsed.records) = Len(records)
        /\ \A k \in 1..Len(records) :
            /\ parsed.records[k].control_fields = records[k].control_fields
            /\ parsed.records[k].data_fields = records[k].data_fields

\* the document that was parsed, and the text of its <leader> element
XmlInput == from_utf8(data).str
LeaderText ==
    SubSeq(XmlInput, FindSeq(XmlInput, 1, StartTag(XmlName.leader, <<>>)) + 8,
           FindSeq(XmlInput, 1, EndTag(XmlName.leader)) - 1)

\* C19: XML leader length.  A <leader> element whose text has fewer than 24
\* characters makes the decode call fail with InvalidLeader; of a text with
\* more than 24 characters the first 24 make the leader.
C19_XmlLeaderLength ==
    pc = "xml_document_parsed" =>
        /\ Len(LeaderText) < LEADER_LEN => parsed.status = "InvalidLeader"
        /\ (Len(LeaderText) > LEADER_LEN /\ parsed.status = "Ok") =>
              parsed.records[1].leader
              = from_bytes(str_as_bytes(SubSeq(LeaderText, 1, LEADER_LEN)),
                           overflow_checks).leader

\* what the start tags of the parsed document hold
HasControlTag == Occurs(<<60, 99, 111, 110, 116, 114, 111, 108, 102, 105, 101, 108, 100, 32, 116, 97, 103, 61, 34>>, XmlInput)
HasDataTag == Occurs(<<60, 100, 97, 116, 97, 102, 105, 101, 108, 100, 32, 116, 97, 103, 61, 34>>, XmlInput)
HasInd1 == Occurs(<<32, 105, 110, 100, 49, 61, 34>>, XmlInput)
HasInd2 == Occurs(<<32, 105, 110, 100, 50, 61, 34>>, XmlInput)
HasCode == Occurs(<<60, 115, 117, 98, 102, 105, 101, 108, 100, 32, 99, 111, 100, 101, 61, 34>>, XmlInput)

\* the leader text is one from_bytes refuses, so that the call fails before
\* it meets the field elements
LeaderRefused ==
    /\ Len(LeaderText) >= LEADER_LEN
    /\ from_bytes(str_as_bytes(SubSeq(LeaderText, 1, LEADER_LEN)),
                  overflow_checks).status # "Ok"

FirstImage ==
    SubSeq(data, 1, from_bytes(SubSeq(data, 1, LEADER_LEN), overflow_checks).leader.record_length)

\* C21: single-record decode.  from_slice (from_str and from_reader go
\* through it) returns an error whenever decoding the input gives no
\* record, an empty buffer for one, and otherwise returns the first record
\* of the buffer in the order of appearance.
C21_SingleRecordDecode ==
    (pc \in {"from_slice", "from_slice_xml"}) =>
        /\ data = <<>> => first.status \notin {"Ok", "none"}
        /\ parsed.status # "Ok" => first.status = parsed.status
        /\ (parsed.status = "Ok" /\ parsed.records = <<>>) => first.status = "Other"
        /\ (parsed.status = "Ok" /\ parsed.records # <<>>) =>
              /\ first = [status |-> "Ok", record |-> parsed.records[1]]
              /\ pc = "from_slice" =>
                    <<first.record>>
                    = parse_marc21_binary(FirstImage, encoding, overflow_checks,
                                          0, <<>>).records

\* from_slice of a buffer of two different records returned the first
C21_Witness ==
    /\ pc = "from_slice" /\ first.status = "Ok"
    /\ Len(parsed.records) = 2
    /\ parsed.records[1] # parsed.records[2]
    /\ first.record = parsed.records[1]

\* --- the directory of the first record of the parsed buffer ---
BufferBase == from_bytes(SubSeq(data, 1, LEADER_LEN), overflow_checks).leader.base_address_of_data
EntryCount == (BufferBase - LEADER_LEN) \div DIR_ENTRY_LEN
EntryBytes(j, from, to) ==
    Slice(data, LEADER_LEN + DIR_ENTRY_LEN * (j - 1) + from,
          LEADER_LEN + DIR_ENTRY_LEN * (j - 1) + to)
EntryTag(j) == EntryBytes(j, 0, 3)
EntryLength(j) == parse_usize(EntryBytes(j, 3, 7)).val
EntryStart(j) == parse_usize(EntryBytes(j, 7, 12)).val
EntryImage(j) ==
    Slice(data, BufferBase + EntryStart(j), BufferBase + EntryStart(j) + EntryLength(j))
IsControl(j) == BytesLess(EntryTag(j), TAG_010)

\* a buffer of one record that parse decoded
OneRecordDecoded ==
    /\ pc = "buffer_parsed" /\ parsed.status = "Ok" /\ Len(parsed.records) = 1

\* the place of entry j among the stored control fields, when every control
\* entry before it is stored
ControlIndex(j) == Cardinality({i \in 1..j : IsControl(i)})

\* C22: field terminator stripping.  For every directory entry with a tag
\* below "010" the binary parser removes the trailing 0x1E of the field
\* image before decoding: the stored value is the decoding of the image
\* without its last byte and never holds U+001E.
C22_TerminatorStripping ==
    (/\ OneRecordDecoded
     /\ \A j \in 1..EntryCount : IsControl(j) => EntryImage(j) # <<>>) =>
        \A j \in 1..EntryCount :
            (IsControl(j) /\ EntryImage(j)[EntryLength(j)] = FIELD_TERMINATOR) =>
                /\ parsed.records[1].control_fields[ControlIndex(j)].value
                   = convert_to_utf8(SubSeq(EntryImage(j), 1, EntryLength(j) - 1),
                                     encoding).str
                /\ \A n \in 1..Len(parsed.records[1].control_fields[ControlIndex(j)].value) :
                      parsed.records[1].control_fields[ControlIndex(j)].value[n]
                      # FIELD_TERMINATOR

\* C23: empty field image.  For a directory entry, control or data, whose
\* field image is empty the binary parser stores no field and goes on with
\* the next entry: the stored control fields and data fields are as many as
\* the entries of their kind with a non-empty image.
C23_EmptyFieldImage ==
    OneRecordDecoded =>
        /\ Len(parsed.records[1].control_fields)
           = Cardinality({j \in 1..EntryCount : IsControl(j) /\ EntryLength(j) > 0})
        /\ Len(parsed.records[1].data_fields)
           = Cardinality({j \in 1..EntryCount : ~IsControl(j) /\ EntryLength(j) > 0})

\* the subfield stream of a data field image: what follows the two
\* indicator bytes, without the field terminator at the end
SubfieldStream(image) ==
    IF image[Len(image)] = FIELD_TERMINATOR THEN SubSeq(image, 3, Len(image) - 1)
    ELSE SubSeq(image, 3, Len(image))

\* the subfields of a stream as the claim gives them: from the delimiter
\* at or after i, a code byte and the bytes up to the next delimiter
RECURSIVE StreamSubfields(_, _)
StreamSubfields(stream, i) ==
    LET d == NextStop(stream, i, {SUBFIELD_DELIMITER})
        e == NextStop(stream, d + 2, {SUBFIELD_DELIMITER})
    IN  IF d >= Len(stream) THEN <<>>
        ELSE <<[code |-> stream[d + 1],
                value |-> convert_to_utf8(SubSeq(stream, d + 2, e - 1), encoding).str]>>
             \o StreamSubfields(stream, e)

\* the place of entry j among the stored data fields
DataIndex(j) == Cardinality({i \in 1..j : ~IsControl(i) /\ EntryLength(i) > 0})

\* C24: subfield stream.  In a data field image, after the two indicator
\* bytes and without the field terminator, the binary parser makes one
\* subfield per 0x1F delimiter that a code byte follows, in order, with the
\* byte after the delimiter as code and the decoding of all bytes up to the
\* next 0x1F or the end of the stream as value; an empty value is stored as
\* an empty string and the subfield is kept.
C24_SubfieldStream ==
    OneRecordDecoded =>
        \A j \in 1..EntryCount :
            (~IsControl(j) /\ EntryLength(j) >= 2) =>
                parsed.records[1].data_fields[DataIndex(j)].subfields
                = StreamSubfields(SubfieldStream(EntryImage(j)), 1)

\* the leader of the buffer frames a record with a directory the parser
\* reads: 24 <= base address <= record length <= bytes at hand
FramedRecord ==
    /\ Len(data) >= LEADER_LEN
    /\ from_bytes(SubSeq(data, 1, LEADER_LEN), overflow_checks).status = "Ok"
    /\ BufferBase >= LEADER_LEN
    /\ BufferBase <= from_bytes(SubSeq(data, 1, LEADER_LEN), overflow_checks).leader.record_length
    /\ from_bytes(SubSeq(data, 1, LEADER_LEN), overflow_checks).leader.record_length <= Len(data)

\* one of the 4 length bytes or of the 5 start bytes of entry j is no digit
BadEntryDigits(j) == \E n \in 1..9 : ~IsDigit(EntryBytes(j, 3, 12)[n])

\* C25: directory entry digits.  For a 12-byte directory entry in which one
\* of the 4 length bytes or of the 5 start bytes is not an ASCII digit the
\* binary parser fails the decode call with InvalidField.
C25_EntryDigits ==
    (pc = "buffer_parsed" /\ FramedRecord) =>
        ((\E j \in 1..EntryCount : BadEntryDigits(j)) => parsed.status = "InvalidField")

\* the 14 leader positions outside the two lengths, as the record carries
\* them: positions 5-11 and 17-23
CarriedPositions(l) ==
    << l.record_status, l.record_type, l.bibliographic_level, l.type_of_control,
       l.character_coding_scheme, ASCII_ZERO + l.indicator_count,
       ASCII_ZERO + l.subfield_code_count,
       l.encoding_level, l.descriptive_cataloging_form,
       l.multipart_resource_record_level,
       ASCII_ZERO + l.length_of_length_of_field_portion,
       ASCII_ZERO + l.length_of_starting_character_position_portion,
       ASCII_ZERO + l.length_of_implementation_defined_portion, l.undefined >>

\* C26: leader frame on emit.  The binary serializer sets leader positions
\* 0-4 and 12-16 from the encoded body, whatever record_length and
\* base_address_of_data the record carries, and writes the 14 other
\* positions as the record carries them; the record itself stays as it was
\* (write takes it by shared reference, the state keeps records unchanged).
C26_LeaderFrame ==
    pc = "written" => \A k \in 1..Len(written.images) :
        /\ Slice(written.images[k].image, 0, 5)
           = FormatZeroPadded(Len(written.images[k].image), 5)
        /\ Slice(written.images[k].image, 12, 17)
           = FormatZeroPadded(LEADER_LEN + Len(written.images[k].directory), 5)
        /\ Slice(written.images[k].image, 5, 12) \o Slice(written.images[k].image, 17, 24)
           = CarriedPositions(records[k].leader)

\* the text of the parts, each entity-unescaped, one after the other
RECURSIVE JoinUnescaped(_)
JoinUnescaped(parts) ==
    IF parts = <<>> THEN <<>>
    ELSE unescape(parts[1], 1).str \o JoinUnescaped(Tail(parts))
\* the parsed document is the unprefixed one made of these parts
IsFormDocument(prefix, l, c, sf) ==
    /\ pc = "xml_form_parsed"
    /\ data = str_as_bytes(FormDocument(prefix, l, c, sf))

\* C27: XML text accumulation.  When the content of a <leader>,
\* <controlfield> or <subfield> element is delivered as several text events,
\* the value stored at the end element is the concatenation, in order, of all
\* those text events, each entity-unescaped, not only the last one.
C27_XmlTextAccumulation ==
    \A l \in LeaderParts, c \in ControlParts, sf \in SubfieldParts :
        IsFormDocument(<<>>, l, c, sf) =>
            /\ parsed.status = "Ok"
            /\ Len(parsed.records) = 1
            /\ parsed.records[1].leader
               = from_bytes(str_as_bytes(JoinUnescaped(l)), overflow_checks).leader
            /\ parsed.records[1].control_fields = <<CF(Tag001, JoinUnescaped(c))>>
            /\ parsed.records[1].data_fields
               = <<DF(Tag245, <<SF(97, JoinUnescaped(sf))>>)>>

\* C27 with the last text event in the place of the concatenation
C27_LastTextEvent ==
    \A l \in LeaderParts, c \in ControlParts, sf \in SubfieldParts :
        IsFormDocument(<<>>, l, c, sf) =>
            /\ parsed.status = "Ok"
            /\ Len(parsed.records) = 1
            /\ parsed.records[1].control_fields
               = <<CF(Tag001, unescape(c[Len(c)], 1).str)>>
            /\ parsed.records[1].data_fields
               = <<DF(Tag245, <<SF(97, unescape(sf[Len(sf)], 1).str)>>)>>
            /\ parsed.records[1].leader
               = IF Len(l) = 1
                 THEN from_bytes(str_as_bytes(l[1]), overflow_checks).leader
                 ELSE DefaultLeader

\* the control field of a document whose text came as "A", a comment, "B"
\* holds "B"
C27_SplitControlField ==
    /\ \E l \in LeaderParts, sf \in SubfieldParts :
          IsFormDocument(<<>>, l, <<<<65>>, <<66>>>>, sf)
    /\ parsed.status = "Ok"
    /\ parsed.records[1].control_fields = <<CF(Tag001, <<66>>)>>

\* C28: XML namespace prefix.  The MARCXML parser recognizes the elements
\* record, leader, controlfield, datafield and subfield both when written
\* without a prefix and when written with a prefix bound to the slim
\* namespace, and decodes the same records in both cases.
C28_XmlNamespacePrefix ==
    \A l \in LeaderParts, c \in ControlParts, sf \in SubfieldParts :
        IsFormDocument(MarcPrefix, l, c, sf) =>
            parsed = parse_marc_xml(str_as_bytes(FormDocument(<<>>, l, c, sf)),
                                    overflow_checks)

\* C28 as the code has it: a document whose elements carry a prefix decodes
\* to no record at all
C28_PrefixedIgnored ==
    \A l \in LeaderParts, c \in ControlParts, sf \in SubfieldParts :
        IsFormDocument(MarcPrefix, l, c, sf) =>
            parsed = [status |-> "Ok", records |-> <<>>]

\* a document with <marc:record> and one text event per element decoded to
\* no record, its unprefixed form decodes to one
C28_PrefixedRecord ==
    /\ IsFormDocument(MarcPrefix, <<<<48, 48, 49, 48, 48, 110, 97, 109, 32, 97, 50, 50, 48, 48, 48, 50, 52, 32, 97, 32, 52, 53, 48, 48>>>>, <<<<65>>>>, <<<<66>>>>)
    /\ parsed = [status |-> "Ok", records |-> <<>>]
    /\ Len(parse_marc_xml(str_as_bytes(FormDocument(<<>>, <<<<48, 48, 49, 48, 48, 110, 97, 109, 32, 97, 50, 50, 48, 48, 48, 50, 52, 32, 97, 32, 52, 53, 48, 48>>>>, <<<<65>>>>, <<<<66>>>>)),
                          overflow_checks).records) = 1

\* the results parse_marc21_binary can return: Ok(records) or a ParseError
ParseResults ==
    {"Ok", "InvalidLeader", "InvalidRecordLength", "UnexpectedEof",
     "InvalidField", "InvalidEncoding"}
\* the leader at the head of the buffer
BufferLeader == from_bytes(SubSeq(data, 1, LEADER_LEN), overflow_checks)

\* C29: parser totality.  For every byte buffer the binary parser returns
\* Ok(records) or a ParseError value; it indexes neither outside the buffer
\* nor outside the record image, the directory or a field image, also when
\* the leader declares base_address_of_data < 24, when record_length < 24,
\* when base_address_of_data > record_length and when a data-field image has
\* length 1.
C29_ParserTotality ==
    pc = "buffer_parsed" => parsed.status \in ParseResults

\* C29 as the code has it, on a buffer of one record: the parser panics
\* exactly at a base address below 24 and at a data-field image of one byte
C29_PanicSites ==
    (/\ pc = "buffer_parsed" /\ parsed.status \notin ParseResults
     /\ BufferLeader.leader.record_length \notin LEADER_LEN..(Len(data) - 1)) =>
        /\ parsed.status = "panic"
        /\ BufferLeader.status = "Ok"
        /\ \/ BufferLeader.leader.base_address_of_data < LEADER_LEN
           \/ /\ FramedRecord
              /\ \E j \in 1..EntryCount : ~IsControl(j) /\ EntryLength(j) = 1

\* a record whose leader declares base_address_of_data = 10 and a
\* record_length the buffer holds: data[24..10] panics
C29_BaseBelowLeader ==
    /\ pc = "buffer_parsed"
    /\ BufferLeader.status = "Ok"
    /\ BufferLeader.leader.base_address_of_data = 10
    /\ BufferLeader.leader.record_length = Len(data)
    /\ parsed.status = "panic"

\* a record of sound frame with one data field whose image is the single
\* byte "1": field_data[1] panics
C29_OneByteImage ==
    /\ pc = "buffer_parsed"
    /\ FramedRecord
    /\ EntryCount = 1 /\ ~IsControl(1) /\ EntryImage(1) = <<49>>
    /\ parsed.status = "panic"

\* record_length < 24 and base_address_of_data > record_length are refused
\* with UnexpectedEof
C29_ShortRecord ==
    /\ pc = "buffer_parsed"
    /\ BufferLeader.status = "Ok"
    /\ BufferLeader.leader.record_length = 10
    /\ BufferLeader.leader.base_address_of_data > 10
    /\ parsed.status = "UnexpectedEof"

\* what the iterations run so far have returned
LoopResult == [status |-> loop.result, records |-> loop.records]

\* the parser run one iteration at a time returns what parse_marc21_binary
\* returns
LoopAgrees ==
    (pc = "loop" /\ loop.at = "returned") =>
        LoopResult = parse_marc21_binary(data, encoding, overflow_checks, 0, <<>>)

\* C30: parser termination.  On every finite byte buffer the binary parser
\* terminates (a panic ends the call as well): an iteration of the record
\* loop stops, fails, or advances the offset by record_length >= 1; an
\* iteration of the directory loop that leads to another one advances the
\* directory offset by 12; an iteration of the subfield loop that leads to
\* another one advances the byte index by at least 1.
C30_ParserTermination ==
    /\ [][/\ loop.at = "record_loop" =>
                loop'.at \in {"returned", "directory_loop"} /\ loop'.offset = loop.offset
          /\ (loop.at # "record_loop" /\ loop'.at = "record_loop") =>
                /\ loop.leader.record_length >= 1
                /\ loop'.offset = loop.offset + loop.leader.record_length
                /\ loop'.offset <= Len(data)
          /\ (loop.at # "record_loop" /\ loop'.at = "directory_loop") =>
                loop'.dir_offset = loop.dir_offset + DIR_ENTRY_LEN
          /\ (loop.at = "subfield_loop" /\ loop'.at = "subfield_loop") =>
                /\ loop'.i >= loop.i + 1
                /\ loop'.i <= Len(loop.field_data) - 2
         ]_vars
    /\ <>(loop.at = "returned")

\* the parser returned two records after it went twice through the record
\* loop, through the directory loop and, for the second record's data
\* field with two subfields, through the subfield loop
C30_Witness ==
    /\ pc = "loop" /\ loop.at = "returned" /\ loop.result = "Ok"
    /\ loop.offset = Len(data)
    /\ Len(loop.records) = 2
    /\ Len(loop.records[2].data_fields) = 1
    /\ Len(loop.records[2].data_fields[1].subfields) = 2

====
